---- MODULE Spec2Model ----
(***************************************************************************)
(* A model of misc./quran_extract.py: the verse-range lookup               *)
(* (get_page_verse_ranges), the chapter locator (find_chapter_start_page), *)
(* the verse extraction (extract_verses_with_counter) and the script body  *)
(* (__main__) that checks the document, detects the chapter pages, fetches *)
(* the verse ranges and extracts them; and of main.py, the daily reminder  *)
(* loop.                                                                   *)
(*                                                                         *)
(* The specifications share the definitions:                               *)
(*   SpecFetch    one call of get_page_verse_ranges                        *)
(*   SpecFind     one call of find_chapter_start_page on a bounded input   *)
(*   SpecExtract  one call of extract_verses_with_counter                  *)
(*   SpecExtractWithFaults  one call in which steps of the image library   *)
(*                raise                                                    *)
(*   SpecRepeat   several calls of extract_verses_with_counter in a row    *)
(*   Spec         one run of the script body                               *)
(*   SpecDaily    main.py                                                  *)
(***************************************************************************)
EXTENDS Integers, Sequences, FiniteSets, TLC

VARIABLES
    pc,               \* position of the program
    total_pages,      \* len(doc) of the source document
    pages,            \* the pages of the document that carry content
    faults,           \* the steps of the image library that raise in this run
    chapter_num,      \* find_chapter_start_page: argument chapter_num
    start_page,       \* find_chapter_start_page: argument start_page
    found_pages,      \* the exclusion list (argument of find, list of __main__)
    find_result,      \* find_chapter_start_page: returned value
    \* extract_verses_with_counter: arguments and locals
    chapter, verse_start, verse_end, chapter_start_page,
    search_limit, page_num, page_verses, found_verses, relevant_pages,
    surah_description_position, output_paths, cropped_images,
    render_idx,       \* position of the render loop in relevant_pages
    crop_bounds,      \* should_crop, crop_y_start, crop_y_end of each page rendered
    merged_img,       \* the merged canvas and where each crop was pasted; <<>> if none
    handles,          \* history: fitz.open and doc.close() calls made so far
    \* get_page_verse_ranges
    api_page,         \* page_num of the page loop
    retry_count,
    api_result,       \* page_verses: page -> verse range stored for it
    api_requests,     \* history: page -> number of requests made for it
    api_failures,     \* history: page -> the kinds of failure met for it
    api_succeeded,    \* history: page -> the range of its successful response
    ex_ret,           \* returned value, meaningful once the call has returned
    scanned,          \* history: the pages the first pass has read
    \* __main__
    surah_pages,      \* chapter -> page, the assignment table
    det_idx,          \* position of the detection loop
    page_verse_ranges,\* the verse ranges obtained from the provider, in page order
    range_idx,        \* position of the extraction loop
    success_count, failure_count,
    call,             \* which call of extract_verses_with_counter is in progress
    success1,         \* the first call of a cross-chapter range, once returned
    detected,         \* history: chapter -> what the detector returned for it
    loop_pages,       \* history: the assignment table when the detection loop ended
    log,              \* history: one entry per verse range processed
    ex_history,       \* history: the extractions that returned before this one
    \* main.py
    daily_counter,
    now,              \* datetime.now() as read at line 20
    day_trace,        \* history: the steps of the try block completed so far
    exit_cause        \* why the process ended, "" while it runs

findVars == <<chapter_num, start_page, find_result>>
docVars == <<total_pages, pages, faults>>
exArgs == <<chapter, verse_start, verse_end, chapter_start_page>>
exScan == <<search_limit, page_num, page_verses, found_verses, relevant_pages,
            surah_description_position, scanned>>
exOut == <<output_paths, cropped_images, render_idx, crop_bounds, merged_img,
          ex_ret>>
exVars == <<exArgs, exScan, exOut>>
runVars == <<surah_pages, det_idx, page_verse_ranges, range_idx, success_count,
             failure_count, call, success1, detected, loop_pages, log>>
fetchVars == <<api_page, retry_count, api_result, api_requests, api_failures,
               api_succeeded>>
dailyVars == <<daily_counter, now, day_trace, exit_cause>>
otherVars == <<ex_history, dailyVars>>
vars == <<pc, docVars, findVars, found_pages, exVars, runVars, handles, fetchVars,
          otherVars>>

\* Python's None, as a value no page index takes.
None == -1

\* find_chapter_start_page opens the document (line 147) and closes it
\* before each of its returns (lines 278, 286, 291); n calls of it.
AfterFindCalls(h, n) ==
    [h EXCEPT !.find_opened = @ + n, !.find_closed = @ + n]

\* Python truthiness of an optional page number: None and 0 are false.
Falsy(x) == x = None \/ x = 0

Min2(a, b) == IF a < b THEN a ELSE b
Max2(a, b) == IF a > b THEN a ELSE b
B2N(b) == IF b THEN 1 ELSE 0
SetMin(S) == CHOOSE x \in S : \A y \in S : x <= y
SetMax(S) == CHOOSE x \in S : \A y \in S : x >= y
EmptyMap == [x \in {} |-> 0]

\* sorted(set(...)): the elements of S in ascending order.
RECURSIVE SortedSeq(_)
SortedSeq(S) ==
    IF S = {} THEN <<>> ELSE <<SetMin(S)>> \o SortedSeq(S \ {SetMin(S)})

Range(seq) == {seq[i] : i \in DOMAIN seq}

(***************************************************************************)
(* The document.  A page is what the layout backend returns for it:        *)
(*   titles    the chapters whose title matches on the page (strong_match) *)
(*   centered  the chapters whose matched title stands on a centred line   *)
(*             in a font larger than 14                                    *)
(*   arabic, bismillah, intro   the three text indicators                  *)
(*   marks     the verse-number matches of the page, in scan order         *)
(*   desc      the blocks of the page, as the preface detection sees them  *)
(*   height    page.rect.height                                            *)
(*   width     page.rect.width                                             *)
(* Pages outside DOMAIN pages are blank.                                   *)
(***************************************************************************)
\* faults.render: the pages whose rendering or full-page save raises (lines
\* 595-608), faults.crop: the pages whose crop raises (lines 680-692),
\* faults.save: the pages whose cropped image cannot be saved (line 700),
\* faults.merge: the merge raises (lines 711-759).
NoFaults == [render |-> {}, crop |-> {}, save |-> {}, merge |-> FALSE]

PageHeight == 800
PageWidth == 600

BlankPage ==
    [titles |-> {}, centered |-> {}, arabic |-> FALSE, bismillah |-> FALSE,
     intro |-> FALSE, marks |-> <<>>, desc |-> <<>>, height |-> PageHeight,
     width |-> PageWidth]

Page(p) == IF p \in DOMAIN pages THEN pages[p] ELSE BlankPage

(***************************************************************************)
(* get_page_verse_ranges.  A response is what one requests.get call gives: *)
(*   kind    "timeout", "request_error" (the call raised) or "response"    *)
(*   status  response.status_code                                          *)
(*   body    "not_json", "no_data" ('data' missing), "no_ayahs" ('ayahs'   *)
(*           missing), "empty_ayahs", "bad_ayah" (an ayah without the      *)
(*           expected fields) or "ayahs" (well-formed)                     *)
(*   range   the verse range of the first and last ayah of the body        *)
(***************************************************************************)
Retries == 2

MayRetryOnceMore(rc) == rc <= Retries + 1

\* The condition retry_count <= retries of the while loop and of the
\* continue/break branches.
MayRetry(rc) == rc <= Retries

\* What one pass of the loop body does with the response: "stored" (the
\* range is stored, success = True), "rejected" (one of the three checks
\* of lines 41, 53, 62 fails) or "raised" (an exception reaches one of the
\* three handlers of lines 91-111).
AttemptResult(resp) ==
    IF resp.kind # "response" THEN "raised"
    ELSE IF resp.status # 200 THEN "rejected"
    ELSE IF resp.body = "not_json" THEN "raised"
    ELSE IF resp.body \in {"no_data", "no_ayahs", "empty_ayahs"} THEN "rejected"
    ELSE IF resp.body = "bad_ayah" THEN "raised"
    ELSE "stored"

\* The kind of failure of a response, as the claims name them.
FailureKind(resp) ==
    IF resp.kind # "response" THEN resp.kind
    ELSE IF resp.status # 200 THEN "status"
    ELSE "malformed"

(***************************************************************************)
(* find_chapter_start_page                                                 *)
(***************************************************************************)
SearchWindow == 200
DefaultStartPage == 28

\* strong_match: a chapter-specific or generic title pattern matched.
strong_match(p, ch) == ch \in Page(p).titles

is_centered_title(p, ch) == ch \in Page(p).centered

indicator_count(p, ch) ==
    B2N(is_centered_title(p, ch)) + B2N(Page(p).arabic)
        + B2N(Page(p).bismillah) + B2N(Page(p).intro)

StrictMinIndicators == 3
WeakMinIndicators == 2

AcceptsAnyTwo(p, ch) ==
    strong_match(p, ch) /\ indicator_count(p, ch) >= WeakMinIndicators

\* The two acceptance rules applied to a page with a title match.
AcceptsOnlyStrict(p, ch) ==
    strong_match(p, ch) /\ indicator_count(p, ch) >= StrictMinIndicators

Accepts(p, ch) ==
    /\ strong_match(p, ch)
    /\ \/ indicator_count(p, ch) >= StrictMinIndicators
       \/ indicator_count(p, ch) >= WeakMinIndicators /\ is_centered_title(p, ch)

\* range(start_page, min(start_page + 200, total_pages)): exclusive upper end.
WindowEnd(start) == Min2(start + SearchWindow, total_pages)

\* The page loop over range(lo, hi): the first page, in ascending order, that
\* is not skipped and is accepted; None when the loop runs to its end.  The
\* range is scanned as its lower half followed by its upper half, which
\* visits the pages in the loop's order.
RECURSIVE ScanForChapter(_, _, _, _)
ScanForChapter(lo, hi, ch, found) ==
    IF lo >= hi THEN None
    ELSE IF hi = lo + 1
         THEN IF lo \notin found /\ Accepts(lo, ch) THEN lo ELSE None
    ELSE LET mid == (lo + hi) \div 2
             first == ScanForChapter(lo, mid, ch, found)
         IN  IF first # None THEN first ELSE ScanForChapter(mid, hi, ch, found)

RECURSIVE ScanIgnoringFound(_, _, _, _)
ScanIgnoringFound(lo, hi, ch, found) ==
    IF lo >= hi THEN None
    ELSE IF hi = lo + 1
         THEN IF Accepts(lo, ch) THEN lo ELSE None
    ELSE LET mid == (lo + hi) \div 2
             first == ScanIgnoringFound(lo, mid, ch, found)
         IN  IF first # None THEN first ELSE ScanIgnoringFound(mid, hi, ch, found)

FindIgnoringFound(ch, start, found) ==
    ScanIgnoringFound(start, WindowEnd(start), ch, found)

FindPastWindow(ch, start, found) ==
    ScanForChapter(start, total_pages, ch, found)

find_chapter_start_page(ch, start, found) ==
    ScanForChapter(start, WindowEnd(start), ch, found)

(***************************************************************************)
(* extract_verses_with_counter: the first pass over the chapter's pages.   *)
(*                                                                         *)
(* A mark is one match of the verse-number pattern in a line of the page:  *)
(*   verse   int(match.group(1))        digits  len(match.group(1))        *)
(*   pos     match.start() in the line  after   non-blank text follows     *)
(*   bold, size   flags & 16 and size of the span holding the match        *)
(*   y       line["bbox"][1]            by0, by1  the block's bbox[1], [3]  *)
(***************************************************************************)
Zoom == 3
NextChapterFallbackSpan == 50
MaxVerseNumber == 300
BoldWeight == 3
LargeFontWeight == 1
LeadingWeight == 2
DigitsWeight == 1
LargeFontSize == 10
LeadingPos == 5
MaxDigits == 3
MinConfidence == 2

TargetVerses == verse_start .. verse_end

\* The block of the mark lies in the header or footer band of the page.
InMargin(m, h) == 10 * m.by0 < h \/ 10 * m.by1 > 9 * h

ConfidenceBoldFour(m) ==
    (IF m.bold THEN 4 ELSE 0)
        + (IF m.size > LargeFontSize THEN LargeFontWeight ELSE 0)
        + (IF m.pos < LeadingPos THEN LeadingWeight ELSE 0)
        + (IF 1 <= m.digits /\ m.digits <= MaxDigits THEN DigitsWeight ELSE 0)

Confidence(m) ==
    (IF m.bold THEN BoldWeight ELSE 0)
        + (IF m.size > LargeFontSize THEN LargeFontWeight ELSE 0)
        + (IF m.pos < LeadingPos THEN LeadingWeight ELSE 0)
        + (IF 1 <= m.digits /\ m.digits <= MaxDigits THEN DigitsWeight ELSE 0)

KeepsAnyConfidence(m, h) ==
    /\ ~InMargin(m, h)
    /\ m.verse >= 1 /\ m.verse <= MaxVerseNumber
    /\ m.after

\* The mark is stored in verses_on_page.
Keeps(m, h) ==
    /\ ~InMargin(m, h)
    /\ m.verse >= 1 /\ m.verse <= MaxVerseNumber
    /\ m.after
    /\ Confidence(m) >= MinConfidence

\* The tuple (y_pos, confidence, bbox) appended for a stored mark; src keeps
\* the mark the tuple was computed from.
Candidate(m) == [y |-> m.y, confidence |-> Confidence(m), src |-> m]

\* verses_on_page after the block loop of page p: verse -> its candidates,
\* in the order the marks were met.
VersesOnPage(p) ==
    LET h == Page(p).height
        marks == Page(p).marks
        kept(v) == SelectSeq(marks, LAMBDA m : Keeps(m, h) /\ m.verse = v)
        verses == {marks[i].verse : i \in {j \in DOMAIN marks : Keeps(marks[j], h)}}
    IN  [v \in verses |-> [i \in 1..Len(kept(v)) |-> Candidate(kept(v)[i])]]

\* A block of the page as the preface detection sees it: bbox[1], bbox[3],
\* styled (red or italic text), long (more than 10 characters of text).
IsDescriptionBlock(b, h) ==
    /\ ~(20 * b.y0 < h \/ 10 * b.y1 > 9 * h)
    /\ b.styled
    /\ b.long

\* surah_description_position after the description scan of page p: <<>>
\* stands for None.
DescriptionPosition(p) ==
    LET h == Page(p).height
        blocks == Page(p).desc
        hit == {i \in DOMAIN blocks : IsDescriptionBlock(blocks[i], h)}
    IN  IF hit = {} THEN <<>>
        ELSE << SetMin({blocks[i].y0 : i \in hit}),
                Max2(0, SetMax({blocks[i].y1 : i \in hit})) >>

IncludesDescriptionAlways == TRUE

\* Line 356.
include_surah_description == verse_start = 1

(***************************************************************************)
(* extract_verses_with_counter: crop boundaries of one relevant page.      *)
(***************************************************************************)
PaddingStart == 60
PaddingAboveDescription == 60
PaddingEnd == 20
PaddingAfter == 120

PixHeight(p) == Page(p).height * Zoom
PixWidth(p) == Page(p).width * Zoom

\* The last of the candidates with the highest confidence.
BestYLastOfTies(cands) ==
    LET top == SetMax({cands[i].confidence : i \in DOMAIN cands})
        i0 == SetMax({i \in DOMAIN cands : cands[i].confidence = top})
    IN  cands[i0].y

\* positions.sort(key=confidence, reverse=True); positions[0][0]: the stable
\* sort keeps the first of the candidates with the highest confidence.
BestY(cands) ==
    LET top == SetMax({cands[i].confidence : i \in DOMAIN cands})
        i0 == SetMin({i \in DOMAIN cands : cands[i].confidence = top})
    IN  cands[i0].y

\* The position of the candidate recorded first.
FirstRecordedY(cands) == cands[1].y

\* positions.sort(key=y); positions[0][0]
EarliestY(cands) == SetMin({cands[i].y : i \in DOMAIN cands})

\* The crop decision of lines 612-674 for page p:
\* [should_crop, crop_y_start, crop_y_end].
CropPlan(p) ==
    LET full == [should_crop |-> FALSE, crop_y_start |-> 0,
                 crop_y_end |-> PixHeight(p)]
    IN  IF p \notin DOMAIN page_verses THEN full
        ELSE
        LET pv == page_verses[p]
            page_target_verses == {v \in TargetVerses : v \in DOMAIN pv}
        IN  IF page_target_verses = {} THEN full
            ELSE
            LET first_verse_num == SetMin(page_target_verses)
                first_verse_pos == BestY(pv[first_verse_num])
                last_verse_num == SetMax(page_target_verses)
                last_verse_pos == BestY(pv[last_verse_num])
                later == {v \in DOMAIN pv : v > last_verse_num}
                use_description ==
                    /\ include_surah_description
                    /\ first_verse_num = 1
                    /\ surah_description_position # <<>>
                    /\ p = chapter_start_page
                y_start ==
                    IF use_description
                    THEN Max2(0, surah_description_position[1] * Zoom
                                     - PaddingAboveDescription * Zoom)
                    ELSE Max2(0, first_verse_pos * Zoom - PaddingStart * Zoom)
                y_end ==
                    IF later # {}
                    THEN Min2(PixHeight(p),
                              EarliestY(pv[SetMin(later)]) * Zoom - PaddingEnd * Zoom)
                    ELSE Min2(PixHeight(p),
                              last_verse_pos * Zoom + PaddingAfter * Zoom)
            IN  [should_crop |-> TRUE, crop_y_start |-> y_start,
                 crop_y_end |-> y_end]

CropsWheneverOrdered(plan, p) == plan.crop_y_start < plan.crop_y_end

CropsWhenPlanned(plan, p) == plan.should_crop

\* "Only crop if we have meaningful boundaries"
CropsPage(plan, p) ==
    /\ plan.should_crop
    /\ plan.crop_y_start < plan.crop_y_end
    /\ (plan.crop_y_start > 0 \/ plan.crop_y_end < PixHeight(p))

(***************************************************************************)
(* extract_verses_with_counter: the steps of one call.                     *)
(***************************************************************************)
ExKeepsRelevantPages ==
    /\ page_verses' = EmptyMap
    /\ found_verses' = {}
    /\ relevant_pages' = relevant_pages
    /\ surah_description_position' = <<>>
    /\ output_paths' = <<>>
    /\ cropped_images' = <<>>
    /\ render_idx' = 1
    /\ crop_bounds' = <<>>
    /\ merged_img' = <<>>
    /\ scanned' = {}

\* The locals as they stand before the first pass.
ExReset ==
    /\ page_verses' = EmptyMap
    /\ found_verses' = {}
    /\ relevant_pages' = <<>>
    /\ surah_description_position' = <<>>
    /\ output_paths' = <<>>
    /\ cropped_images' = <<>>
    /\ render_idx' = 1
    /\ crop_bounds' = <<>>
    /\ merged_img' = <<>>
    /\ scanned' = {}

SearchLimitByCount(next_chapter_start, csp) ==
    Min2(csp + NextChapterFallbackSpan, total_pages)

\* Lines 344-350: the scan stops before the next chapter's start page, or
\* 50 pages after the chapter start page, or at the end of the document.
SearchLimit(next_chapter_start, csp) ==
    IF ~Falsy(next_chapter_start)
    THEN next_chapter_start
    ELSE Min2(csp + NextChapterFallbackSpan, total_pages)

\* Lines 315-372: default verse_end, resolve the chapter start page, find
\* the next chapter and set search_limit.
ExStart ==
    /\ pc = "ex_start"
    /\ verse_end' = IF verse_end = None THEN verse_start ELSE verse_end
    /\ UNCHANGED <<chapter, verse_start, docVars, findVars, found_pages, runVars>>
    /\ ExReset
    /\ LET csp == IF chapter_start_page = None
                  THEN find_chapter_start_page(chapter, DefaultStartPage, {})
                  ELSE chapter_start_page
       IN  IF chapter_start_page = None /\ Falsy(csp)
           THEN /\ chapter_start_page' = csp
                /\ search_limit' = None
                /\ page_num' = None
                /\ ex_ret' = FALSE
                /\ pc' = "ex_done"
                /\ handles' = AfterFindCalls(handles, 1)
           ELSE LET next_chapter_start ==
                        find_chapter_start_page(chapter + 1, csp + 1, {})
                    limit == SearchLimit(next_chapter_start, csp)
                IN  /\ chapter_start_page' = csp
                    /\ search_limit' = limit
                    /\ page_num' = csp
                    /\ ex_ret' = FALSE
                    /\ pc' = IF csp < limit THEN "ex_scan" ELSE "ex_select"
                    /\ handles' =
                          [AfterFindCalls(handles,
                                          IF chapter_start_page = None THEN 2 ELSE 1)
                              EXCEPT !.ex_opened = @ + 1]
    /\ UNCHANGED fetchVars
    /\ UNCHANGED otherVars

\* Every target verse on the page, instead of at least one.
HasAllTargetVerses(vop) == TargetVerses \subseteq DOMAIN vop

\* Any verse on the page, instead of a target verse.
HasAnyVerses(vop) == DOMAIN vop # {}

\* has_target_verses: a verse of the requested range is in verses_on_page.
has_target_verses(vop) == DOMAIN vop \cap TargetVerses # {}

\* Lines 375-570: one iteration of the first pass, for page page_num.
ExScanPage ==
    /\ pc = "ex_scan"
    /\ LET p == page_num
           vop == VersesOnPage(p)
           hit == DOMAIN vop \cap TargetVerses
           found == found_verses \cup hit
           relevant == IF has_target_verses(vop) THEN Append(relevant_pages, p)
                       ELSE relevant_pages
           all_found == found = TargetVerses
       IN  /\ scanned' = scanned \cup {p}
           /\ surah_description_position' =
                  IF include_surah_description /\ p = chapter_start_page
                     /\ DescriptionPosition(p) # <<>>
                  THEN DescriptionPosition(p)
                  ELSE surah_description_position
           /\ page_verses' = IF DOMAIN vop # {} THEN (p :> vop) @@ page_verses
                             ELSE page_verses
           /\ found_verses' = found
           /\ relevant_pages' = relevant
           /\ IF all_found /\ relevant = <<>>
              THEN \* min() of an empty list raises; the handler returns False
                   /\ ex_ret' = FALSE
                   /\ pc' = "ex_done"
                   /\ page_num' = p
              ELSE /\ ex_ret' = ex_ret
                   /\ IF (all_found /\ p > SetMin(Range(relevant)))
                         \/ p + 1 >= search_limit
                      THEN pc' = "ex_select" /\ page_num' = p
                      ELSE pc' = "ex_scan" /\ page_num' = p + 1
    /\ UNCHANGED <<exArgs, search_limit, output_paths, cropped_images, render_idx,
                   crop_bounds, merged_img, docVars, findVars, found_pages, runVars>>
    /\ UNCHANGED handles
    /\ UNCHANGED fetchVars
    /\ UNCHANGED otherVars

SelectWithoutFallback(rel, csp) == SortedSeq(Range(rel))

\* Lines 572-578: sort and de-duplicate the relevant pages, fall back to the
\* chapter start page when there is none.
SelectPages(rel, csp) ==
    IF SortedSeq(Range(rel)) = <<>> THEN <<csp>> ELSE SortedSeq(Range(rel))

ExSelectPages ==
    /\ pc = "ex_select"
    /\ relevant_pages' = SelectPages(relevant_pages, chapter_start_page)
    /\ pc' = "ex_render"
    /\ UNCHANGED <<exArgs, search_limit, page_num, page_verses, found_verses,
                   surah_description_position, scanned, exOut,
                   docVars, findVars, found_pages, runVars>>
    /\ UNCHANGED handles
    /\ UNCHANGED fetchVars
    /\ UNCHANGED otherVars

CropFailureEscapes == FALSE

\* Line 705: an exception of the crop step is caught inside the page loop.
CropFailureContained == TRUE

\* Lines 589-706: one iteration of the render loop.  doc[page_num] raises
\* when the page is not in the document; the handler of line 770 then
\* returns False.
ExRenderPage ==
    /\ pc = "ex_render"
    /\ render_idx <= Len(relevant_pages)
    /\ LET p == relevant_pages[render_idx]
           plan == CropPlan(p)
           backup == [kind |-> "backup", page |-> p]
           crop == [kind |-> "cropped", page |-> p]
       IN  IF p >= total_pages \/ p \in faults.render
           THEN /\ ex_ret' = FALSE
                /\ pc' = "ex_done"
                /\ UNCHANGED <<output_paths, cropped_images, render_idx, crop_bounds>>
           ELSE /\ crop_bounds' = Append(crop_bounds, [page |-> p] @@ plan)
                /\ cropped_images' =
                      IF CropsPage(plan, p) /\ p \notin faults.crop
                      THEN Append(cropped_images,
                               [page |-> p, crop_y_start |-> plan.crop_y_start,
                                crop_y_end |-> plan.crop_y_end,
                                width |-> PixWidth(p),
                                height |-> plan.crop_y_end - plan.crop_y_start])
                      ELSE cropped_images
                /\ output_paths' =
                      IF CropsPage(plan, p) /\ p \notin faults.crop
                         /\ p \notin faults.save
                      THEN output_paths \o <<backup, crop>>
                      ELSE Append(output_paths, backup)
                /\ render_idx' = render_idx + 1
                /\ IF plan.should_crop /\ p \in faults.crop \cup faults.save
                      /\ ~CropFailureContained
                   THEN ex_ret' = FALSE /\ pc' = "ex_done"
                   ELSE UNCHANGED <<ex_ret, pc>>
    /\ UNCHANGED <<exArgs, exScan, merged_img, docVars, findVars, found_pages,
                   runVars>>
    /\ UNCHANGED handles
    /\ UNCHANGED fetchVars
    /\ UNCHANGED otherVars

MergeGap == 60

\* cropped_images.sort(key=page_num)
SortByPage(crops) ==
    LET ps == SortedSeq({crops[i].page : i \in DOMAIN crops})
    IN  [i \in DOMAIN ps |-> CHOOSE c \in Range(crops) : c.page = ps[i]]

\* sum(img.height for _, img in cropped_images)
RECURSIVE SumHeights(_)
SumHeights(crops) ==
    IF crops = <<>> THEN 0 ELSE Head(crops).height + SumHeights(Tail(crops))

TotalHeightGapPerCrop(crops) == SumHeights(crops) + MergeGap * Len(crops)

\* total_height
TotalHeight(crops) == SumHeights(crops) + MergeGap * (Len(crops) - 1)

\* max_width
MaxWidth(crops) == SetMax({crops[i].width : i \in DOMAIN crops})

\* x_position: the image is centred horizontally.
XPosition(max_width, width) == (max_width - width) \div 2

\* The paste loop from crop i on, y_position being the next free offset.
RECURSIVE Paste(_, _, _, _)
Paste(crops, i, y_position, max_width) ==
    IF i > Len(crops) THEN <<>>
    ELSE <<[page |-> crops[i].page, x |-> XPosition(max_width, crops[i].width),
            y |-> y_position, width |-> crops[i].width,
            height |-> crops[i].height]>>
         \o Paste(crops, i + 1,
                  y_position + crops[i].height
                      + (IF i < Len(crops) THEN MergeGap ELSE 0),
                  max_width)

\* The merged image of lines 714-749.
MergedImage(crops) ==
    [width |-> MaxWidth(SortByPage(crops)),
     height |-> TotalHeight(SortByPage(crops)),
     pastes |-> Paste(SortByPage(crops), 1, 0, MaxWidth(SortByPage(crops)))]

MergesAnyCrop(crops) == Len(crops) >= 1

\* Line 709: the crops are merged.
Merges(crops) == Len(crops) > 1

\* Lines 708-768: merge the crops when there are several, and return.
ExFinish ==
    /\ pc = "ex_render"
    /\ render_idx > Len(relevant_pages)
    /\ output_paths' =
          IF Merges(cropped_images) /\ ~faults.merge
          THEN Append(output_paths, [kind |-> "merged", page |-> None])
          ELSE output_paths
    /\ merged_img' = IF Merges(cropped_images) /\ ~faults.merge
                     THEN MergedImage(cropped_images)
                     ELSE merged_img
    /\ ex_ret' = (Len(output_paths') > 0)
    /\ handles' = [handles EXCEPT !.ex_closed = @ + 1]
    /\ pc' = "ex_done"
    /\ UNCHANGED <<exArgs, exScan, cropped_images, render_idx, crop_bounds,
                   docVars, findVars, found_pages, runVars>>
    /\ UNCHANGED fetchVars
    /\ UNCHANGED otherVars

\* Lines 598-607, 698, 752-755: the file name of an output, as its parts:
\* quran_surah{chapter}_verse{verse_start}, -{verse_end} when it differs,
\* _page{page_num} for the outputs of a page, and the ending.
ArtifactName(ch, vs, ve, o) ==
    [surah |-> ch, verse |-> vs,
     to |-> IF ve # vs THEN ve ELSE None,
     page |-> IF o.kind = "merged" THEN None ELSE o.page,
     ending |-> IF o.kind = "backup" THEN ".png"
                ELSE IF o.kind = "cropped" THEN "_cropped.png"
                ELSE "_merged.png"]

\* What an extraction that has returned was called with and what it made.
ExSnapshot ==
    [chapter |-> chapter, verse_start |-> verse_start, verse_end |-> verse_end,
     chapter_start_page |-> chapter_start_page,
     relevant_pages |-> relevant_pages, crop_bounds |-> crop_bounds,
     names |-> [i \in DOMAIN output_paths |->
                  ArtifactName(chapter, verse_start, verse_end, output_paths[i])],
     ret |-> ex_ret]

ExtractStep == ExStart \/ ExScanPage \/ ExSelectPages \/ ExRenderPage \/ ExFinish

(***************************************************************************)
(* __main__: chapter detection, verse ranges, extraction loop.             *)
(***************************************************************************)
\* What the script finds on disk: the document file exists, it opens as a
\* PDF, the output directory exists, a missing output directory can be made.
Environments ==
    [pdf_exists : BOOLEAN, pdf_opens : BOOLEAN, outdir_exists : BOOLEAN,
     outdir_creatable : BOOLEAN]

\* Lines 790-827: where the script goes after its checks of the document
\* and of the output directory; each "exit_" position is a sys.exit(1).
AfterValidation(env) ==
    IF ~env.pdf_exists THEN "exit_no_pdf"
    ELSE IF ~env.pdf_opens THEN "exit_bad_pdf"
    ELSE IF ~env.outdir_exists /\ ~env.outdir_creatable THEN "exit_no_output_dir"
    ELSE "detect"

Validate ==
    /\ pc = "validate"
    /\ \E env \in Environments :
          /\ env.pdf_opens => env.pdf_exists
          /\ pc' = AfterValidation(env)
          /\ handles' = IF env.pdf_exists /\ env.pdf_opens
                        THEN [handles EXCEPT !.main_opened = @ + 1,
                                             !.main_closed = @ + 1]
                        ELSE handles
    /\ UNCHANGED <<docVars, findVars, found_pages, exVars, runVars, fetchVars,
                   otherVars>>

\* known_surah_pages
known_surah_pages == (1 :> 28) @@ (2 :> 29) @@ (3 :> 62) @@ (4 :> 95)
                         @@ (7 :> 177) @@ (9 :> 217)

\* The chapters of the detection loop, in its order.
DetectionChapters == <<1, 2, 3, 7, 9>>

ChosenWithoutFallback(ch, page, found) ==
    IF page \in found
    THEN IF ch \in DOMAIN known_surah_pages THEN known_surah_pages[ch] ELSE page + 1
    ELSE page

\* Lines 861-887: the page the loop assigns to the chapter, given what the
\* detector returned; None when the chapter stays unassigned.
ChosenPage(ch, page, found) ==
    LET p1 == IF page \in found
              THEN IF ch \in DOMAIN known_surah_pages
                   THEN known_surah_pages[ch] ELSE page + 1
              ELSE page
    IN  IF ~Falsy(p1) THEN p1
        ELSE IF ch \in DOMAIN known_surah_pages THEN known_surah_pages[ch]
        ELSE None

\* One iteration of the detection loop (lines 851-887).
Detect ==
    /\ pc = "detect"
    /\ LET ch == DetectionChapters[det_idx]
           page == find_chapter_start_page(ch, DefaultStartPage, found_pages)
           chosen == ChosenPage(ch, page, found_pages)
       IN  /\ detected' = (ch :> [page |-> page, excluded |-> found_pages]) @@ detected
           /\ handles' = AfterFindCalls(handles, 1)
           /\ IF chosen # None
              THEN /\ surah_pages' = (ch :> chosen) @@ surah_pages
                   /\ found_pages' = found_pages \cup {chosen}
              ELSE UNCHANGED <<surah_pages, found_pages>>
    /\ IF det_idx < Len(DetectionChapters)
       THEN det_idx' = det_idx + 1 /\ pc' = "detect" /\ loop_pages' = loop_pages
       ELSE det_idx' = det_idx /\ pc' = "override" /\ loop_pages' = surah_pages'
    /\ UNCHANGED <<docVars, findVars, exVars, page_verse_ranges, range_idx,
                   success_count, failure_count, call, success1, log>>
    /\ UNCHANGED fetchVars
    /\ UNCHANGED otherVars

KeepDetectedPages(sp) == sp

\* Lines 889-899: when two chapters share a page, every chapter with a known
\* page takes its known page.
OverrideDuplicates(sp) ==
    IF Cardinality({sp[c] : c \in DOMAIN sp}) < Cardinality(DOMAIN sp)
    THEN [c \in DOMAIN sp |->
             IF c \in DOMAIN known_surah_pages THEN known_surah_pages[c] ELSE sp[c]]
    ELSE sp

Override ==
    /\ pc = "override"
    /\ surah_pages' = OverrideDuplicates(surah_pages)
    /\ pc' = "fetch"
    /\ UNCHANGED <<docVars, findVars, found_pages, exVars, det_idx, detected,
                   loop_pages, page_verse_ranges, range_idx, success_count,
                   failure_count, call, success1, log>>
    /\ UNCHANGED handles
    /\ UNCHANGED fetchVars
    /\ UNCHANGED otherVars

\* Lines 906-926: the verse ranges are fetched; the run exits when there is
\* none.
ProceedsWithoutRanges(ranges) == FALSE

\* Line 910: not page_verse_ranges.
NoRanges(ranges) == ranges = <<>>

Fetch ==
    /\ pc = "fetch"
    /\ pc' = IF NoRanges(page_verse_ranges) THEN "exit_no_ranges" ELSE "loop"
    /\ UNCHANGED <<docVars, findVars, found_pages, exVars, det_idx, detected,
                   loop_pages, surah_pages, page_verse_ranges, range_idx,
                   success_count, failure_count, call, success1, log>>
    /\ UNCHANGED handles
    /\ UNCHANGED fetchVars
    /\ UNCHANGED otherVars

\* The chapter is neither in the assignment table nor in the known-page
\* table with a usable page, so the detector is called for it.
NeedsDetection(ch) ==
    IF ch \in DOMAIN surah_pages THEN Falsy(surah_pages[ch])
    ELSE IF ch \in DOMAIN known_surah_pages THEN Falsy(known_surah_pages[ch])
    ELSE TRUE

\* Lines 943-953: the start page of a single-chapter range.
ResolveSingle(ch) ==
    LET chapter_page == IF ch \in DOMAIN surah_pages THEN surah_pages[ch]
                        ELSE IF ch \in DOMAIN known_surah_pages
                             THEN known_surah_pages[ch]
                        ELSE None
    IN  IF Falsy(chapter_page)
        THEN find_chapter_start_page(ch, DefaultStartPage, found_pages)
        ELSE chapter_page

\* Lines 980-997: the start page of a chapter of a cross-chapter range.
ResolveCross(ch) ==
    IF ch \in DOMAIN surah_pages THEN surah_pages[ch]
    ELSE IF ch \in DOMAIN known_surah_pages THEN known_surah_pages[ch]
    ELSE find_chapter_start_page(ch, DefaultStartPage, found_pages)

\* The calls of find_chapter_start_page made to resolve the pages of range r.
FindCallsOf(r) ==
    IF r.start_chapter = r.end_chapter
    THEN B2N(NeedsDetection(r.start_chapter))
    ELSE B2N(r.start_chapter \notin DOMAIN surah_pages
                 /\ r.start_chapter \notin DOMAIN known_surah_pages)
         + B2N(r.end_chapter \notin DOMAIN surah_pages
                   /\ r.end_chapter \notin DOMAIN known_surah_pages)

\* A call of extract_verses_with_counter with the given arguments.
ExCall(ch, vs, ve, csp) ==
    /\ chapter' = ch
    /\ verse_start' = vs
    /\ verse_end' = ve
    /\ chapter_start_page' = csp
    /\ pc' = "ex_start"
    /\ UNCHANGED <<exScan, exOut>>

\* The entry of the log for the range being processed.
LogEntry(r, p1, p2, first, second, counted) ==
    [range |-> r, start_chapter_page |-> p1, end_chapter_page |-> p2,
     first |-> first, second |-> second, counted |-> counted]

NoCall == [made |-> FALSE, chapter |-> 0, verse_start |-> 0, verse_end |-> 0,
           ret |-> FALSE]
ThisCall == [made |-> TRUE, chapter |-> chapter, verse_start |-> verse_start,
             verse_end |-> verse_end, ret |-> ex_ret]

\* The verse_end argument of the first call of a cross-chapter range
\* (line 1016).
FirstPartVerseEnd(r) == None

ExtractsUnresolved(page) == FALSE

\* Lines 957, 1000, 1005: the chapter's start page could not be resolved.
Unresolved(page) == Falsy(page)

SkipUncounted(count) == count

\* Lines 958, 1002, 1007: failure_count += 1 before the continue.
AfterSkip(count) == count + 1

\* Lines 929-1030: the next verse range; its chapter pages are resolved and
\* it is skipped as a failure or its (first) extraction is called.
ProcessRange ==
    /\ pc = "loop"
    /\ range_idx <= Len(page_verse_ranges)
    /\ handles' = AfterFindCalls(handles, FindCallsOf(page_verse_ranges[range_idx]))
    /\ LET r == page_verse_ranges[range_idx]
       IN  IF r.start_chapter = r.end_chapter
           THEN LET chapter_page == ResolveSingle(r.start_chapter)
                IN  IF Unresolved(chapter_page)
                    THEN /\ failure_count' = AfterSkip(failure_count)
                         /\ log' = Append(log, LogEntry(r, chapter_page, None,
                                                        NoCall, NoCall, "failure"))
                         /\ range_idx' = range_idx + 1
                         /\ UNCHANGED <<pc, exVars, call>>
                    ELSE /\ ExCall(r.start_chapter, r.start_verse, r.end_verse,
                                   chapter_page)
                         /\ call' = [kind |-> "single", p1 |-> chapter_page,
                                     p2 |-> None]
                         /\ UNCHANGED <<failure_count, log, range_idx>>
           ELSE LET start_chapter_page == ResolveCross(r.start_chapter)
                    end_chapter_page == ResolveCross(r.end_chapter)
                IN  IF Unresolved(start_chapter_page) \/ Unresolved(end_chapter_page)
                    THEN /\ failure_count' = AfterSkip(failure_count)
                         /\ log' = Append(log, LogEntry(r, start_chapter_page,
                                              end_chapter_page, NoCall, NoCall,
                                              "failure"))
                         /\ range_idx' = range_idx + 1
                         /\ UNCHANGED <<pc, exVars, call>>
                    ELSE /\ ExCall(r.start_chapter, r.start_verse,
                                   FirstPartVerseEnd(r), start_chapter_page)
                         /\ call' = [kind |-> "first", p1 |-> start_chapter_page,
                                     p2 |-> end_chapter_page]
                         /\ UNCHANGED <<failure_count, log, range_idx>>
    /\ UNCHANGED <<docVars, findVars, found_pages, det_idx, detected, loop_pages,
                   surah_pages, page_verse_ranges, success_count, success1>>
    /\ UNCHANGED fetchVars
    /\ UNCHANGED otherVars

CountsEitherPart(s1, s2) == s1 \/ s2

\* Line 1032: the cross-chapter range counts as a success.
CountsAsSuccess(s1, s2) == s1 /\ s2

\* Lines 971-974, 1021-1035: an extraction has returned to the loop.
Return ==
    /\ pc = "ex_done"
    /\ call.kind # "none"
    /\ LET r == page_verse_ranges[range_idx]
       IN  \/ /\ call.kind = "single"
              /\ IF ex_ret
                 THEN success_count' = success_count + 1 /\ failure_count' = failure_count
                 ELSE failure_count' = failure_count + 1 /\ success_count' = success_count
              /\ log' = Append(log, LogEntry(r, call.p1, call.p2, ThisCall, NoCall,
                                   IF ex_ret THEN "success" ELSE "failure"))
              /\ range_idx' = range_idx + 1
              /\ call' = [kind |-> "none", p1 |-> None, p2 |-> None]
              /\ pc' = "loop"
              /\ UNCHANGED <<exVars, success1>>
           \/ /\ call.kind = "first"
              /\ success1' = ThisCall
              /\ ExCall(r.end_chapter, 1, r.end_verse, call.p2)
              /\ call' = [call EXCEPT !.kind = "second"]
              /\ UNCHANGED <<success_count, failure_count, log, range_idx>>
           \/ /\ call.kind = "second"
              /\ IF CountsAsSuccess(success1.ret, ex_ret)
                 THEN success_count' = success_count + 1 /\ failure_count' = failure_count
                 ELSE failure_count' = failure_count + 1 /\ success_count' = success_count
              /\ log' = Append(log, LogEntry(r, call.p1, call.p2, success1, ThisCall,
                                   IF CountsAsSuccess(success1.ret, ex_ret)
                                   THEN "success" ELSE "failure"))
              /\ range_idx' = range_idx + 1
              /\ call' = [kind |-> "none", p1 |-> None, p2 |-> None]
              /\ pc' = "loop"
              /\ UNCHANGED <<exVars, success1>>
    /\ UNCHANGED <<docVars, findVars, found_pages, det_idx, detected, loop_pages,
                   surah_pages, page_verse_ranges>>
    /\ UNCHANGED handles
    /\ UNCHANGED fetchVars
    /\ UNCHANGED otherVars

\* Lines 1037-1047: the loop is over, the summary is printed.
Summary ==
    /\ pc = "loop"
    /\ range_idx > Len(page_verse_ranges)
    /\ pc' = "summary"
    /\ UNCHANGED <<docVars, findVars, found_pages, exVars, runVars>>
    /\ UNCHANGED handles
    /\ UNCHANGED fetchVars
    /\ UNCHANGED otherVars

\* The script's variables before the detection loop.
\* find_chapter_start_page has not been called.
FindIdle == chapter_num = 0 /\ start_page = 0 /\ find_result = None

\* get_page_verse_ranges has not been called.
FetchIdle ==
    /\ api_page = 0 /\ retry_count = 0
    /\ api_result = EmptyMap /\ api_requests = EmptyMap
    /\ api_failures = EmptyMap /\ api_succeeded = EmptyMap

\* No extraction has returned; main.py is not running.
OtherIdle ==
    /\ ex_history = <<>>
    /\ daily_counter = 0 /\ now = <<0, 0>> /\ day_trace = <<>> /\ exit_cause = ""

NoHandles ==
    [ex_opened |-> 0, ex_closed |-> 0, find_opened |-> 0, find_closed |-> 0,
     main_opened |-> 0, main_closed |-> 0]

RunIdle ==
    /\ surah_pages = EmptyMap /\ det_idx = 1
    /\ page_verse_ranges = <<>> /\ range_idx = 1
    /\ success_count = 0 /\ failure_count = 0
    /\ call = [kind |-> "none", p1 |-> None, p2 |-> None]
    /\ success1 = NoCall
    /\ detected = EmptyMap /\ loop_pages = EmptyMap /\ log = <<>>

\* The extraction's variables while no call is in progress.
ExIdle ==
    /\ chapter = 0 /\ verse_start = 0 /\ verse_end = 0
    /\ chapter_start_page = None
    /\ search_limit = None /\ page_num = None
    /\ page_verses = EmptyMap /\ found_verses = {} /\ relevant_pages = <<>>
    /\ surah_description_position = <<>>
    /\ output_paths = <<>> /\ cropped_images = <<>> /\ render_idx = 1
    /\ crop_bounds = <<>> /\ merged_img = <<>>
    /\ ex_ret = FALSE /\ scanned = {}

(***************************************************************************)
(* SpecFind: one call of find_chapter_start_page.                          *)
(***************************************************************************)
\* The indicator combinations of a page, for one chapter.
FindPageKinds(ch) ==
    { [BlankPage EXCEPT !.titles = t, !.centered = c, !.arabic = a,
                        !.bismillah = b, !.intro = i] :
        t \in {{}, {ch}}, c \in {{}, {ch}}, a \in BOOLEAN, b \in BOOLEAN,
        i \in BOOLEAN }

\* A page with every indicator, for the chapters in chs.
TitlePage(chs) ==
    [BlankPage EXCEPT !.titles = chs, !.centered = chs, !.arabic = TRUE,
                      !.bismillah = TRUE, !.intro = TRUE]

\* A page with the centred title and the parenthesised name only.
WeakTitlePage(chs) ==
    [BlankPage EXCEPT !.titles = chs, !.centered = chs, !.arabic = TRUE]

FindPositions == {28, 29, 227, 228}
FindTotals == {29, 230}
FindFarPages == {{}, {229}}
FindStarts == {28, 29}
FindExclusions == {{}, {28}, {29}, {28, 227}}
FindChapters == {2}

InitFind ==
    /\ pc = "find"
    /\ FetchIdle
    /\ handles = NoHandles
    /\ OtherIdle
    /\ chapter_num \in FindChapters
    /\ start_page \in FindStarts
    /\ found_pages \in FindExclusions
    /\ total_pages \in FindTotals
    /\ faults = NoFaults
    /\ \E r \in FindPositions, s \in FindPositions, k \in FindPageKinds(chapter_num) :
          /\ k.centered \subseteq k.titles
          /\ \E far \in FindFarPages,
                k2 \in {TitlePage({chapter_num}), WeakTitlePage({chapter_num})} :
                pages = (r :> k) @@ (s :> k2)
                            @@ [p \in far |-> TitlePage({chapter_num})]
    /\ find_result = None
    /\ ExIdle
    /\ RunIdle

FindCall ==
    /\ pc = "find"
    /\ find_result' = find_chapter_start_page(chapter_num, start_page, found_pages)
    /\ pc' = "found"
    /\ handles' = AfterFindCalls(handles, 1)
    /\ UNCHANGED <<docVars, chapter_num, start_page, found_pages, exVars, runVars>>
    /\ UNCHANGED fetchVars
    /\ UNCHANGED otherVars

NextFind == FindCall

SpecFind == InitFind /\ [][NextFind]_vars

(***************************************************************************)
(* SpecFetch: one call of get_page_verse_ranges.                           *)
(***************************************************************************)
PagesToFetch == 2

FetchRanges == {[start_chapter |-> 2, start_verse |-> 1, end_chapter |-> 2,
                 end_verse |-> 2],
                [start_chapter |-> 4, start_verse |-> 2, end_chapter |-> 5,
                 end_verse |-> 1]}

Responses ==
    { [kind |-> k, status |-> 0, body |-> "none", range |-> <<>>] :
        k \in {"timeout", "request_error"} }
    \cup { [kind |-> "response", status |-> st, body |-> b, range |-> <<>>] :
             st \in {200, 500},
             b \in {"not_json", "no_data", "no_ayahs", "empty_ayahs", "bad_ayah"} }
    \cup { [kind |-> "response", status |-> st, body |-> "ayahs", range |-> r] :
             st \in {200, 500}, r \in FetchRanges }

notFetchVars == <<docVars, findVars, found_pages, exVars, runVars, handles,
                  otherVars>>

\* The request of line 39 is made for page api_page.
Requested ==
    api_requests' =
        [api_requests EXCEPT ![api_page] = @ + 1]

\* After a failed attempt: retry the page, or give it up and go to the next.
AfterFailure(resp) ==
    /\ api_failures' =
          [api_failures EXCEPT ![api_page] = @ \cup {FailureKind(resp)}]
    /\ UNCHANGED <<api_result, api_succeeded>>
    /\ IF MayRetry(retry_count + 1)
       THEN /\ retry_count' = retry_count + 1
            /\ UNCHANGED <<api_page, pc>>
       ELSE /\ retry_count' = 0
            /\ api_page' = api_page + 1
            /\ pc' = IF api_page + 1 <= PagesToFetch THEN "api_request"
                     ELSE "api_return"

\* Lines 71-89: the response is well-formed and its range is stored.
ApiStore ==
    /\ pc = "api_request"
    /\ \E resp \in Responses :
          /\ AttemptResult(resp) = "stored"
          /\ Requested
          /\ api_result' = (api_page :> resp.range) @@ api_result
          /\ api_succeeded' = (api_page :> resp.range) @@ api_succeeded
          /\ retry_count' = 0
          /\ api_page' = api_page + 1
          /\ pc' = IF api_page + 1 <= PagesToFetch THEN "api_request"
                   ELSE "api_return"
    /\ UNCHANGED <<api_failures, notFetchVars>>

\* Lines 41-69: a status other than 200, or no 'data', or no 'ayahs'.
ApiReject ==
    /\ pc = "api_request"
    /\ \E resp \in Responses :
          /\ AttemptResult(resp) = "rejected"
          /\ Requested
          /\ AfterFailure(resp)
    /\ UNCHANGED notFetchVars

\* Lines 91-111: the request or the parsing of the response raised.
ApiRaise ==
    /\ pc = "api_request"
    /\ \E resp \in Responses :
          /\ AttemptResult(resp) = "raised"
          /\ Requested
          /\ AfterFailure(resp)
    /\ UNCHANGED notFetchVars

\* Lines 113-120: None when no page was stored, else the ranges in page
\* order.
ReturnedRanges(result) ==
    LET ps == SortedSeq(DOMAIN result)
    IN  [i \in DOMAIN ps |-> result[ps[i]]]

ApiReturn ==
    /\ pc = "api_return"
    /\ page_verse_ranges' = ReturnedRanges(api_result)
    /\ pc' = "api_done"
    /\ UNCHANGED <<docVars, findVars, found_pages, exVars, handles, fetchVars,
                   surah_pages, det_idx, range_idx, success_count, failure_count,
                   call, success1, detected, loop_pages, log, otherVars>>

InitFetch ==
    /\ pc = "api_request"
    /\ handles = NoHandles
    /\ OtherIdle
    /\ total_pages = 31 /\ pages = EmptyMap /\ faults = NoFaults
    /\ FindIdle /\ found_pages = {}
    /\ ExIdle
    /\ RunIdle
    /\ api_page = 1 /\ retry_count = 0
    /\ api_result = EmptyMap
    /\ api_requests = [p \in 1..PagesToFetch |-> 0]
    /\ api_failures = [p \in 1..PagesToFetch |-> {}]
    /\ api_succeeded = EmptyMap

NextFetch == ApiStore \/ ApiReject \/ ApiRaise \/ ApiReturn

SpecFetch == InitFetch /\ [][NextFetch]_vars

(***************************************************************************)
(* SpecExtract: one call of extract_verses_with_counter.                   *)
(***************************************************************************)
MaxVerse == 3
ExChapter == 2

NumDigits(v) == IF v < 10 THEN 1 ELSE IF v < 100 THEN 2 ELSE 3

Mark(v, y, bold, size, pos, digits, after, by0, by1) ==
    [verse |-> v, y |-> y, bold |-> bold, size |-> size, pos |-> pos,
     digits |-> digits, after |-> after, by0 |-> by0, by1 |-> by1]

\* A bold verse number at the start of its line (confidence 7).
StdMark(v, y) == Mark(v, y, TRUE, 12, 0, NumDigits(v), TRUE, y, y + 20)
\* A plain verse number at the start of its line (confidence 3).
WeakMark(v, y) == Mark(v, y, FALSE, 9, 0, NumDigits(v), TRUE, y, y + 20)

\* The sequences of length at most n over the set S.
SeqsUpTo(S, n) == UNION {[1..k -> S] : k \in 0..n}

WithMarks(pg, marks) == [pg EXCEPT !.marks = marks]

ExRanges == {<<s, e>> \in (1..MaxVerse) \X (1..MaxVerse) : s <= e}

\* Family A: a mark in every style on the chapter start page, followed by
\* a bold verse 2.
ProbeMarks ==
    { Mark(v, 200, b, sz, ps, d, af, blk[1], blk[2]) :
        v \in {0, 1, 301}, b \in BOOLEAN, sz \in {10, 11}, ps \in {4, 5},
        d \in {1, 3, 4}, af \in BOOLEAN,
        blk \in {<<79, 220>>, <<200, 220>>, <<200, 721>>} }

ProbeDocs ==
    { (28 :> WithMarks(BlankPage, <<m, StdMark(2, 300)>>)) : m \in {x \in ProbeMarks : x.digits >= NumDigits(x.verse)} }

\* Family B: verse numbers over the chapter's first three pages, the next
\* chapter's title on the second or third page or on none.
StartPageMarks ==
    {StdMark(v, 100 * v + 100) : v \in 1..MaxVerse}
        \cup {WeakMark(v, 600) : v \in 1..MaxVerse}
SecondPageMarks == {StdMark(v, 100 * v) : v \in 1..MaxVerse}
ThirdPageMarks == {StdMark(MaxVerse, 300)}

LayoutDocs ==
    { (28 :> WithMarks(BlankPage, m1))
          @@ (29 :> WithMarks(IF nx = 29 THEN TitlePage({ExChapter + 1}) ELSE BlankPage, m2))
          @@ (30 :> WithMarks(IF nx = 30 THEN TitlePage({ExChapter + 1}) ELSE BlankPage, m3)) :
        m1 \in SeqsUpTo(StartPageMarks, 2), m2 \in SeqsUpTo(SecondPageMarks, 1),
        m3 \in SeqsUpTo(ThirdPageMarks, 1), nx \in {29, 30, None} }

\* Family C: the chapter start page is not given, or is not in the document.
LocateDocs ==
    { [p \in t |-> WithMarks(TitlePage({ExChapter}), <<StdMark(1, 200)>>)] :
        t \in {{}, {29}} }

\* Family D: styled blocks before verse 1 on the chapter start page.
DescBlocks ==
    { [y0 |-> 100, y1 |-> 150, styled |-> TRUE, long |-> TRUE],
      [y0 |-> 50, y1 |-> 70, styled |-> TRUE, long |-> TRUE],
      [y0 |-> 30, y1 |-> 60, styled |-> TRUE, long |-> TRUE],
      [y0 |-> 160, y1 |-> 190, styled |-> TRUE, long |-> FALSE],
      [y0 |-> 120, y1 |-> 180, styled |-> FALSE, long |-> TRUE],
      [y0 |-> 700, y1 |-> 730, styled |-> TRUE, long |-> TRUE] }

PrefaceDocs ==
    { (28 :> [WithMarks(BlankPage, m) EXCEPT !.desc = d])
          @@ (29 :> [WithMarks(BlankPage, <<StdMark(2, 100)>>)
                        EXCEPT !.desc = d, !.width = w]) :
        w \in {PageWidth - 5, PageWidth, PageWidth + 5},
        m \in {<<StdMark(1, 300)>>, <<StdMark(1, 300), StdMark(2, 400)>>,
               <<StdMark(2, 300)>>, <<StdMark(1, 690)>>},
        d \in SeqsUpTo(DescBlocks, 2) }

\* Family E: several candidates of one verse on the chapter start page,
\* with equal and with different confidence.
TieMarks == {StdMark(1, 200), StdMark(1, 400), WeakMark(1, 300), StdMark(2, 500)}

TieDocs == { (28 :> WithMarks(BlankPage, m)) : m \in SeqsUpTo(TieMarks, 3) }

\* Family F: verses 1 and 2 on the chapter start page, followed by marks of
\* later verses in any order.
FollowMarks == {StdMark(4, 450), StdMark(4, 350), StdMark(3, 500), WeakMark(3, 650)}

FollowDocs ==
    { (28 :> WithMarks(BlankPage, <<StdMark(1, 120), StdMark(2, 300)>> \o m)) :
        m \in SeqsUpTo(FollowMarks, 2) }

\* Family H: a document of 96 pages; the chapter's verse 2 stands 49 and 50
\* pages after the chapter start page, the next chapter's title on page 60
\* or on none.
LongDocs ==
    { (28 :> WithMarks(BlankPage, <<StdMark(1, 200)>>))
          @@ (60 :> WithMarks(IF nx = 60 THEN TitlePage({ExChapter + 1})
                              ELSE BlankPage, <<StdMark(2, 100)>>))
          @@ (77 :> WithMarks(BlankPage, <<StdMark(2, 200)>>))
          @@ (78 :> WithMarks(BlankPage, <<StdMark(2, 300)>>)) :
        nx \in {60, None} }

ExLocalsIdle ==
    /\ search_limit = None /\ page_num = None
    /\ page_verses = EmptyMap /\ found_verses = {} /\ relevant_pages = <<>>
    /\ surah_description_position = <<>>
    /\ output_paths = <<>> /\ cropped_images = <<>> /\ render_idx = 1
    /\ crop_bounds = <<>> /\ merged_img = <<>>
    /\ ex_ret = FALSE /\ scanned = {}

InitExtract ==
    /\ pc = "ex_start"
    /\ FetchIdle
    /\ handles = NoHandles
    /\ OtherIdle
    /\ FindIdle
    /\ found_pages = {}
    /\ RunIdle
    /\ ExLocalsIdle
    /\ chapter = ExChapter
    /\ faults = NoFaults
    /\ \/ /\ pages \in LongDocs
          /\ chapter_start_page = 28
          /\ \E r \in ExRanges : verse_start = r[1] /\ verse_end = r[2]
       \/ /\ pages \in ProbeDocs
          /\ chapter_start_page = 28
          /\ verse_start = 1 /\ verse_end \in {2, None}
       \/ /\ pages \in LayoutDocs
          /\ chapter_start_page = 28
          /\ \E r \in ExRanges : verse_start = r[1] /\ verse_end = r[2]
       \/ /\ pages \in LocateDocs
          /\ chapter_start_page \in {None, 29, 30, 31, 40}
          /\ verse_start = 1 /\ verse_end \in {1, None}
       \/ /\ pages \in PrefaceDocs
          /\ chapter_start_page = 28
          /\ \E r \in ExRanges : verse_start = r[1] /\ verse_end = r[2]
       \/ /\ pages \in TieDocs
          /\ chapter_start_page = 28
          /\ verse_start = 1 /\ verse_end \in {1, 2}
       \/ /\ pages \in FollowDocs
          /\ chapter_start_page = 28
          /\ verse_start = 1 /\ verse_end \in {1, 2}
    /\ total_pages = IF pages \in LongDocs THEN 96 ELSE 31

NextExtract == ExtractStep

\* Family G: one verse on each of the chapter's first three pages, and
\* steps of the image library that raise.
FaultDocs ==
    { (28 :> WithMarks(BlankPage, <<StdMark(1, 200)>>))
          @@ (29 :> WithMarks(BlankPage, m2))
          @@ (30 :> WithMarks(BlankPage, m3)) :
        m2 \in {<<>>, <<StdMark(2, 200)>>, <<StdMark(1, 300)>>},
        m3 \in {<<>>, <<StdMark(MaxVerse, 200)>>} }

FaultSets ==
    [render : {{}, {29}}, crop : {{}, {28}, {29}}, save : {{}, {28}, {30}},
     merge : BOOLEAN]

InitExtractWithFaults ==
    /\ pc = "ex_start"
    /\ FetchIdle
    /\ handles = NoHandles
    /\ OtherIdle
    /\ FindIdle
    /\ found_pages = {}
    /\ RunIdle
    /\ ExLocalsIdle
    /\ chapter = ExChapter
    /\ total_pages = 31
    /\ pages \in FaultDocs
    /\ faults \in FaultSets
    /\ chapter_start_page \in {28, None}
    /\ \E r \in ExRanges : verse_start = r[1] /\ verse_end = r[2]

SpecExtractWithFaults == InitExtractWithFaults /\ [][NextExtract]_vars

SpecExtract == InitExtract /\ [][NextExtract]_vars

(***************************************************************************)
(* Spec: one run of the script body.                                       *)
(***************************************************************************)
MaxRanges == 2

VerseRange(sc, sv, ec, ev) ==
    [start_chapter |-> sc, start_verse |-> sv, end_chapter |-> ec, end_verse |-> ev]

\* The verse ranges a provider page may carry: inside a chapter the
\* detection loop covers (2), a chapter only the known-page table covers
\* (4), chapters neither covers (5, 6), and across two chapters.
RunRanges ==
    { VerseRange(2, 1, 2, 2), VerseRange(4, 1, 4, 1), VerseRange(5, 1, 5, 2),
      VerseRange(4, 2, 5, 1), VerseRange(5, 2, 6, 1) }

RunPage(titles, marks) ==
    WithMarks(IF titles = {} THEN BlankPage ELSE TitlePage(titles), marks)

\* The documents of a run: chapter titles on pages 28 to 30 and 95, verse
\* numbers on each of them; 31 or 96 pages.
RunDocs ==
    { (28 :> RunPage(t28, <<StdMark(1, 200), StdMark(2, 300)>>))
          @@ (29 :> RunPage(t29, <<StdMark(1, 200)>>))
          @@ (30 :> RunPage(t30, <<StdMark(1, 200), StdMark(2, 300)>>))
          @@ (95 :> RunPage(t95, <<StdMark(1, 200)>>)) :
        t28 \in {{}, {1}}, t29 \in {{}, {1}, {2}}, t30 \in {{}, {5}, {5, 6}},
        t95 \in {{}, {5}} }

Init ==
    /\ pc = "validate"
    /\ FetchIdle
    /\ handles = NoHandles
    /\ OtherIdle
    /\ FindIdle
    /\ found_pages = {}
    /\ ExIdle
    /\ surah_pages = EmptyMap /\ det_idx = 1
    /\ range_idx = 1
    /\ success_count = 0 /\ failure_count = 0
    /\ call = [kind |-> "none", p1 |-> None, p2 |-> None]
    /\ success1 = NoCall
    /\ detected = EmptyMap /\ loop_pages = EmptyMap /\ log = <<>>
    /\ page_verse_ranges \in SeqsUpTo(RunRanges, MaxRanges)
    /\ total_pages \in {31, 96}
    /\ faults = NoFaults
    /\ pages \in {d \in RunDocs : total_pages = 31 => d[95].titles = {}}

Next ==
    \/ Validate
    \/ Detect
    \/ Override
    \/ Fetch
    \/ ProcessRange
    \/ Return
    \/ Summary
    \/ ExtractStep

Spec == Init /\ [][Next]_vars

(***************************************************************************)
(* SpecRepeat: extract_verses_with_counter called several times in one     *)
(* process on the same document.                                           *)
(***************************************************************************)
RepeatRanges == {<<1, None>>, <<1, 1>>, <<1, 2>>, <<2, MaxVerse>>}
RepeatStartPages == {28, 29}

RepeatDocs ==
    { (28 :> WithMarks(BlankPage, <<StdMark(1, 200)>>))
          @@ (29 :> WithMarks(BlankPage, m2))
          @@ (30 :> WithMarks(BlankPage, <<StdMark(MaxVerse, 200)>>)) :
        m2 \in {<<StdMark(2, 200)>>, <<StdMark(1, 300)>>,
                <<StdMark(1, 100), StdMark(2, 300)>>} }

InitRepeat ==
    /\ pc = "ex_start"
    /\ FetchIdle
    /\ handles = NoHandles
    /\ OtherIdle
    /\ FindIdle
    /\ found_pages = {}
    /\ RunIdle
    /\ ExLocalsIdle
    /\ chapter = ExChapter
    /\ total_pages = 31
    /\ faults = NoFaults
    /\ pages \in RepeatDocs
    /\ chapter_start_page \in RepeatStartPages
    /\ \E r \in RepeatRanges : verse_start = r[1] /\ verse_end = r[2]

\* The extraction has returned and the function is called again.
ExCallAgain ==
    /\ pc = "ex_done"
    /\ Len(ex_history) < MaxRanges
    /\ ex_history' = Append(ex_history, ExSnapshot)
    /\ \E r \in RepeatRanges, csp \in RepeatStartPages :
          ExCall(chapter, r[1], r[2], csp)
    /\ UNCHANGED <<docVars, findVars, found_pages, runVars, handles, fetchVars,
                   dailyVars>>

NextRepeat == ExtractStep \/ ExCallAgain

SpecRepeat == InitRepeat /\ [][NextRepeat]_vars

(***************************************************************************)
(* SpecDaily: main.py, the daily reminder loop.                            *)
(***************************************************************************)
FirstDay == 113
LastDay == 604
SendHour == 8
SendMinute == 0

Hours == 0..23
Minutes == 0..59

\* The functions that the module messager defines (messager.py).
MessagerFunctions ==
    {"send_daily_messages", "send_friday_message", "send_poll_reminder",
     "send_media", "send_text_message"}

notDailyVars == <<docVars, findVars, found_pages, exVars, runVars, handles,
                  fetchVars, ex_history>>

InitDaily ==
    /\ pc = "daily_loop"
    /\ daily_counter = FirstDay
    /\ now = <<0, 0>>
    /\ day_trace = <<>>
    /\ exit_cause = ""
    /\ ex_history = <<>>
    /\ handles = NoHandles
    /\ total_pages = 31 /\ pages = EmptyMap /\ faults = NoFaults
    /\ FindIdle /\ found_pages = {}
    /\ ExIdle
    /\ RunIdle
    /\ FetchIdle

\* main.py lines 19-23, 57-58: the loop reads the clock; at 8:00 it enters
\* the try block, at any other time it sleeps for a minute.
DailyPoll ==
    /\ pc = "daily_loop"
    /\ daily_counter <= LastDay
    /\ \E h \in Hours, m \in Minutes :
          /\ now' = <<h, m>>
          /\ pc' = IF h = SendHour /\ m = SendMinute THEN "daily_download"
                    ELSE "daily_loop"
    /\ day_trace' = <<>>
    /\ UNCHANGED <<daily_counter, exit_cause, notDailyVars>>

\* main.py line 27, downloader.py lines 10-26: the files of the day are
\* downloaded.
DailyDownloaded ==
    /\ pc = "daily_download"
    /\ day_trace' = Append(day_trace, "download")
    /\ pc' = "daily_send"
    /\ UNCHANGED <<daily_counter, now, exit_cause, notDailyVars>>

\* downloader.py lines 11-15, main.py lines 45-47: authenticate() raises,
\* download_files raises AuthenticationError, the handler sends a text
\* message and calls exit().
DailyAuthenticationError ==
    /\ pc = "daily_download"
    /\ day_trace' = Append(day_trace, "text: Authentication Error.")
    /\ exit_cause' = "AuthenticationError"
    /\ pc' = "daily_exit"
    /\ UNCHANGED <<daily_counter, now, notDailyVars>>

\* main.py line 30: messager.send_messages(daily_counter).  The attribute
\* lookup on the module raises AttributeError when messager defines no such
\* function; no handler of lines 45-55 catches it and the process ends with
\* a traceback.
DailySend ==
    /\ pc = "daily_send"
    /\ IF "send_messages" \in MessagerFunctions
       THEN /\ day_trace' = Append(day_trace, "send")
            /\ pc' = "daily_delete"
            /\ UNCHANGED exit_cause
       ELSE /\ exit_cause' = "AttributeError"
            /\ pc' = "daily_crash"
            /\ UNCHANGED day_trace
    /\ UNCHANGED <<daily_counter, now, notDailyVars>>

NextDaily == DailyPoll \/ DailyDownloaded \/ DailyAuthenticationError \/ DailySend

SpecDaily == InitDaily /\ [][NextDaily]_vars

(***************************************************************************)
(* Properties of find_chapter_start_page (checked under SpecFind).         *)
(***************************************************************************)
FindReturned == pc = "found"

\* A page qualifies for a chapter when its title matches and at least 3 of
\* the 4 indicators hold, or at least 2 hold with the centred title among them.
Qualifies(p, ch) ==
    LET pg == Page(p)
        centred == ch \in pg.centered
        n == Cardinality({x \in {"arabic", "bismillah", "intro"} : pg[x]})
                 + (IF centred THEN 1 ELSE 0)
    IN  ch \in pg.titles /\ (n >= 3 \/ (n >= 2 /\ centred))

\* The pages of the search window that are not excluded and qualify.
WindowCandidates ==
    { p \in 0..(total_pages - 1) :
        /\ start_page <= p
        /\ p < start_page + 200
        /\ p \notin found_pages
        /\ Qualifies(p, chapter_num) }

\* C3: find_chapter_start_page never returns a page index that is a member
\* of the found_pages exclusion set it was given.
C3_NeverReturnsExcludedPage ==
    FindReturned => find_result \notin found_pages

\* C3 witness: a page was returned although an excluded page before it in
\* the window qualifies for the chapter.
C3_Witness ==
    /\ FindReturned
    /\ find_result # None
    /\ \E p \in found_pages :
          start_page <= p /\ p < find_result /\ Qualifies(p, chapter_num)

\* C5: find_chapter_start_page returns the lowest-index page of the window
\* start_page <= p < min(start_page + 200, number of pages) that is not
\* excluded and passes the title match and the acceptance rule, and returns
\* none exactly when no page of the window qualifies.
C5_ReturnsFirstQualifyingInWindow ==
    FindReturned =>
        IF WindowCandidates = {}
        THEN find_result = None
        ELSE /\ find_result \in WindowCandidates
             /\ \A q \in WindowCandidates : find_result <= q

\* C5 witness: the result is a page that has a qualifying page after it in
\* the window, while a qualifying page lies beyond the window's end.
C5_Witness ==
    /\ FindReturned
    /\ find_result # None
    /\ \E q \in WindowCandidates : q > find_result
    /\ \E r \in DOMAIN pages :
          r >= start_page + 200 /\ r < total_pages /\ Qualifies(r, chapter_num)

\* The indicators that hold on page p for chapter ch.
IndicatorsOn(p, ch) ==
    {x \in {"arabic", "bismillah", "intro"} : Page(p)[x]}
        \cup (IF ch \in Page(p).centered THEN {"centered"} ELSE {})

\* C24: whenever find_chapter_start_page returns a page, that page has a
\* title match for the requested chapter and either at least 3 of the 4
\* indicators hold (centered large-font title line, parenthesized name,
\* invocational opening phrase, descriptive sentence) or at least 2 hold and
\* the centered-title indicator is one of them; a page with a title match
\* but fewer indicators is never returned.
C24_ReturnedPageHasEnoughIndicators ==
    (FindReturned /\ find_result # None) =>
        /\ chapter_num \in Page(find_result).titles
        /\ \/ Cardinality(IndicatorsOn(find_result, chapter_num)) >= 3
           \/ /\ Cardinality(IndicatorsOn(find_result, chapter_num)) = 2
              /\ "centered" \in IndicatorsOn(find_result, chapter_num)

\* C24 witness: the returned page has exactly two indicators, the centred
\* title among them, and an earlier page of the window that is not excluded
\* has the title and two indicators without the centred title.
C24_Witness ==
    /\ FindReturned
    /\ find_result # None
    /\ Cardinality(IndicatorsOn(find_result, chapter_num)) = 2
    /\ "centered" \in IndicatorsOn(find_result, chapter_num)
    /\ \E q \in DOMAIN pages :
          /\ start_page <= q /\ q < find_result /\ q \notin found_pages
          /\ chapter_num \in Page(q).titles
          /\ Cardinality(IndicatorsOn(q, chapter_num)) = 2
          /\ "centered" \notin IndicatorsOn(q, chapter_num)

(***************************************************************************)
(* Properties of extract_verses_with_counter (checked under SpecExtract).  *)
(***************************************************************************)
ExReturned == pc = "ex_done"

\* The first pass is over and the pages to render are selected.
ExSelected == pc = "ex_render" \/ (pc = "ex_done" /\ render_idx > 1)

\* The candidates stored in the verse position index.
StoredCandidates ==
    UNION { UNION { Range(page_verses[p][v]) : v \in DOMAIN page_verses[p] } :
              p \in DOMAIN page_verses }

\* The scanned pages on which a target verse was recorded.
PagesWithTargetVerse ==
    { p \in scanned :
        /\ p \in DOMAIN page_verses
        /\ \E v \in verse_start..verse_end : v \in DOMAIN page_verses[p] }

\* C8: every candidate stored in the verse position index has an integer
\* confidence between 2 and 7, the sum of the weights that apply among bold
\* +3, large font +1, leading position +2 and digit-string length 1..3 +1; a
\* candidate whose score is below 2 is never stored nor counted as found.
C8_StoredConfidenceBetween2And7 ==
    /\ \A c \in StoredCandidates :
          /\ c.confidence \in 2..7
          /\ c.confidence =
                 (IF c.src.bold THEN 3 ELSE 0) + (IF c.src.size > 10 THEN 1 ELSE 0)
                     + (IF c.src.pos < 5 THEN 2 ELSE 0)
                     + (IF c.src.digits \in 1..3 THEN 1 ELSE 0)
    /\ \A v \in found_verses :
          \E p \in DOMAIN page_verses : v \in DOMAIN page_verses[p]

\* C8 witness: the scanned page holds a mark of target verse 1 that scores
\* below 2 and is otherwise well-formed; it is not stored, verse 1 is not
\* found, and the bold verse 2 after it is stored with confidence 7.
C8_Witness ==
    /\ ExReturned
    /\ 28 \in scanned
    /\ \E i \in DOMAIN Page(28).marks :
          LET m == Page(28).marks[i]
          IN  /\ m.verse = 1 /\ m.after /\ m.by0 >= 80 /\ m.by1 <= 720
              /\ ~m.bold /\ m.pos >= 5
    /\ 1 \notin found_verses
    /\ \E c \in StoredCandidates : c.confidence = 7 /\ c.src.verse = 2

\* C9 as stated: the list of pages processed for output is exactly the set
\* of scanned pages on which at least one target verse was recorded, each
\* once and in ascending page order.
C9_Original ==
    ExSelected =>
        /\ Range(relevant_pages) = PagesWithTargetVerse
        /\ \A i, j \in DOMAIN relevant_pages :
              i < j => relevant_pages[i] < relevant_pages[j]

\* C9 amended: when at least one scanned page recorded a target verse, the
\* list of pages processed for output is exactly the set of those pages,
\* each once and in ascending page order; when none did, the list is the
\* chapter start page alone.
C9_RelevantPagesAreTargetPages ==
    ExSelected =>
        IF PagesWithTargetVerse # {}
        THEN /\ Range(relevant_pages) = PagesWithTargetVerse
             /\ \A i, j \in DOMAIN relevant_pages :
                   i < j => relevant_pages[i] < relevant_pages[j]
        ELSE relevant_pages = <<chapter_start_page>>

\* C9 witness: two pages recorded target verses and a scanned page between
\* or after them recorded only other verses.
C9_Witness ==
    /\ ExSelected
    /\ Cardinality(PagesWithTargetVerse) >= 2
    /\ \E p \in scanned : p \in DOMAIN page_verses /\ p \notin PagesWithTargetVerse

\* C10 as stated: when no scanned page contains any target verse, the
\* extraction processes exactly one page, the chapter start page, and
\* outputs it as a full uncropped page with no cropped and no merged raster.
C10_Original ==
    (ExReturned /\ chapter_start_page # None /\ PagesWithTargetVerse = {}) =>
        /\ relevant_pages = <<chapter_start_page>>
        /\ output_paths = <<[kind |-> "backup", page |-> chapter_start_page]>>
        /\ cropped_images = <<>>

\* C10 amended: when no scanned page contains any target verse and the
\* chapter start page is a page of the document, the extraction processes
\* exactly one page, the chapter start page, and outputs it as a full
\* uncropped page with no cropped and no merged raster; when the chapter
\* start page is not in the document nothing is output and the extraction
\* returns failure.
C10_FallbackToChapterStartPage ==
    (ExReturned /\ chapter_start_page # None /\ PagesWithTargetVerse = {}) =>
        /\ relevant_pages = <<chapter_start_page>>
        /\ cropped_images = <<>>
        /\ IF chapter_start_page < total_pages
           THEN /\ output_paths = <<[kind |-> "backup", page |-> chapter_start_page]>>
                /\ ex_ret
           ELSE output_paths = <<>> /\ ~ex_ret

\* C10 witness: pages were scanned, the chapter start page recorded verses,
\* none of them a target verse, and the full page was the only output.
C10_Witness ==
    /\ ExReturned
    /\ PagesWithTargetVerse = {}
    /\ Cardinality(scanned) >= 2
    /\ chapter_start_page \in DOMAIN page_verses
    /\ output_paths = <<[kind |-> "backup", page |-> chapter_start_page]>>

\* The pages the render loop has processed so far.
RenderedPages ==
    IF pc \in {"ex_render", "ex_done"}
    THEN {relevant_pages[i] : i \in 1..(render_idx - 1)}
    ELSE {}

\* The outputs written for page p, in the order they were written.
OutputsOf(p) == SelectSeq(output_paths, LAMBDA o : o.page = p)

\* The bounds computed for page p are degenerate: start >= end, or start = 0
\* together with end = raster height.
DegenerateBounds(p) ==
    \/ CropPlan(p).crop_y_start >= CropPlan(p).crop_y_end
    \/ CropPlan(p).crop_y_start = 0 /\ CropPlan(p).crop_y_end = Page(p).height * 3

\* C11: every cropped raster that is saved has integer bounds with
\* 0 <= crop_y_start < crop_y_end <= raster height and does not cover the
\* whole page; when the computed bounds are degenerate no cropped raster is
\* produced for that page and the full-page raster is its only output.
C11_SavedCropsAreProperRegions ==
    /\ \A i \in DOMAIN cropped_images :
          LET c == cropped_images[i]
              height == Page(c.page).height * 3
          IN  /\ c.crop_y_start \in Int /\ c.crop_y_end \in Int
              /\ 0 <= c.crop_y_start
              /\ c.crop_y_start < c.crop_y_end
              /\ c.crop_y_end <= height
              /\ ~(c.crop_y_start = 0 /\ c.crop_y_end = height)
              /\ [kind |-> "cropped", page |-> c.page] \in Range(output_paths)
    /\ \A p \in RenderedPages :
          DegenerateBounds(p) =>
              /\ \A i \in DOMAIN cropped_images : cropped_images[i].page # p
              /\ OutputsOf(p) = <<[kind |-> "backup", page |-> p]>>

\* C11 witness: the extraction has returned with a cropped raster saved for
\* one page and, for another page that holds a target verse, bounds with
\* start >= end and the full page as its only output.
C11_Witness ==
    /\ ExReturned
    /\ cropped_images # <<>>
    /\ \E p \in RenderedPages :
          /\ CropPlan(p).should_crop
          /\ CropPlan(p).crop_y_start >= CropPlan(p).crop_y_end
          /\ OutputsOf(p) = <<[kind |-> "backup", page |-> p]>>

\* A rendered page holds target verses and its computed bounds are the
\* whole page (start = 0, end = raster height); no crop was saved for it.
C11_WholePageCase ==
    /\ ExReturned
    /\ \E p \in RenderedPages :
          /\ CropPlan(p).should_crop
          /\ CropPlan(p).crop_y_start = 0
          /\ CropPlan(p).crop_y_end = Page(p).height * 3
          /\ OutputsOf(p) = <<[kind |-> "backup", page |-> p]>>

\* The target verses recorded on page p.
TargetVersesOn(p) ==
    IF p \in DOMAIN page_verses
    THEN {v \in verse_start..verse_end : v \in DOMAIN page_verses[p]}
    ELSE {}

\* The preface override applies to page p: verse 1 is requested and is the
\* lowest target verse on the page, a preface was found, and p is the
\* chapter start page.
PrefaceOverrides(p) ==
    /\ verse_start = 1
    /\ 1 \in TargetVersesOn(p)
    /\ surah_description_position # <<>>
    /\ p = chapter_start_page

\* c is the highest-confidence candidate in cands, the first recorded among
\* those of equal confidence.
IsChosenCandidate(cands, i) ==
    /\ \A j \in DOMAIN cands : cands[j].confidence <= cands[i].confidence
    /\ \A j \in DOMAIN cands : cands[j].confidence = cands[i].confidence => i <= j

\* C12: on a relevant page where no preface override applies, the top crop
\* boundary equals max(0, y*zoom - 60*zoom), where y is the position of the
\* highest-confidence candidate of the lowest-numbered target verse present
\* on the page (the first recorded among equal confidence) and zoom is 3.
C12_TopBoundaryFromBestCandidate ==
    \A k \in DOMAIN crop_bounds :
        LET b == crop_bounds[k]
            p == b.page
        IN  (TargetVersesOn(p) # {} /\ ~PrefaceOverrides(p)) =>
                LET v1 == CHOOSE v \in TargetVersesOn(p) :
                              \A w \in TargetVersesOn(p) : v <= w
                    cands == page_verses[p][v1]
                IN  \E i \in DOMAIN cands :
                        /\ IsChosenCandidate(cands, i)
                        /\ b.crop_y_start =
                               (IF cands[i].y * 3 - 60 * 3 > 0
                                THEN cands[i].y * 3 - 60 * 3 ELSE 0)

\* C12 witness: the lowest target verse of a rendered page has a weaker
\* candidate recorded first and then two candidates of the highest
\* confidence at different positions, the lower one on the page first.
C12_Witness ==
    /\ ExReturned
    /\ \E k \in DOMAIN crop_bounds :
          LET p == crop_bounds[k].page
          IN  /\ TargetVersesOn(p) # {} /\ ~PrefaceOverrides(p)
              /\ LET cands == page_verses[p][verse_start]
                 IN  /\ verse_start \in TargetVersesOn(p)
                     /\ \E i, j \in DOMAIN cands :
                           /\ 1 < i /\ i < j
                           /\ cands[1].confidence < cands[i].confidence
                           /\ IsChosenCandidate(cands, i)
                           /\ cands[j].confidence = cands[i].confidence
                           /\ cands[j].y < cands[i].y
                           /\ crop_bounds[k].crop_y_start = cands[i].y * 3 - 180

\* C13: on a relevant page the bottom crop boundary is
\* min(raster height, y_next*zoom - 20*zoom), y_next the position of the
\* nearest following verse on the page (a verse whose number is strictly
\* greater than the page's highest target verse, at its earliest occurrence
\* by vertical position); with no such verse on the page it is
\* min(raster height, y_last*zoom + 120*zoom), y_last the position of the
\* highest target verse.  For verses 1 at 120, 2 at 300, 4 at 450 and target
\* {1,2} the bottom boundary is 450*zoom - 20*zoom.
C13_BottomBoundaryFromFollowingVerse ==
    \A k \in DOMAIN crop_bounds :
        LET b == crop_bounds[k]
            p == b.page
            height == Page(p).height * 3
            clamp(x) == IF x < height THEN x ELSE height
        IN  TargetVersesOn(p) # {} =>
                LET pv == page_verses[p]
                    vlast == CHOOSE v \in TargetVersesOn(p) :
                                 \A w \in TargetVersesOn(p) : w <= v
                    greater == {v \in DOMAIN pv : v > vlast}
                IN  IF greater # {}
                    THEN LET vnext == CHOOSE v \in greater : \A w \in greater : v <= w
                         IN  \E i \in DOMAIN pv[vnext] :
                                 /\ \A j \in DOMAIN pv[vnext] : pv[vnext][i].y <= pv[vnext][j].y
                                 /\ b.crop_y_end = clamp(pv[vnext][i].y * 3 - 20 * 3)
                    ELSE \E i \in DOMAIN pv[vlast] :
                             /\ IsChosenCandidate(pv[vlast], i)
                             /\ b.crop_y_end = clamp(pv[vlast][i].y * 3 + 120 * 3)

\* C13 witness: the page holds verse 1 at 120, verse 2 at 300 and verse 4 at
\* 450, the target is {1,2}, and the bottom boundary is 450*3 - 20*3.
C13_Witness ==
    /\ ExReturned
    /\ verse_start = 1 /\ verse_end = 2
    /\ \E k \in DOMAIN crop_bounds :
          LET p == crop_bounds[k].page
          IN  /\ p \in DOMAIN page_verses
              /\ DOMAIN page_verses[p] = {1, 2, 4}
              /\ {c.y : c \in Range(page_verses[p][1])} = {120}
              /\ {c.y : c \in Range(page_verses[p][2])} = {300}
              /\ {c.y : c \in Range(page_verses[p][4])} = {450}
              /\ crop_bounds[k].crop_y_end = 1290

\* The nearest following verse was recorded twice on the page, first at the
\* lower position, and a verse with a greater number stands above both.
C13_SeveralFollowingVerses ==
    /\ ExReturned
    /\ verse_start = 1 /\ verse_end = 1
    /\ \E k \in DOMAIN crop_bounds :
          LET p == crop_bounds[k].page
          IN  /\ p \in DOMAIN page_verses
              /\ {2, 3, 4} \subseteq DOMAIN page_verses[p]
              /\ \E c \in Range(page_verses[p][4]) :
                    \A d \in Range(page_verses[p][3]) : c.y < d.y

\* The merged rasters among the outputs.
MergedOutputs == SelectSeq(output_paths, LAMBDA o : o.kind = "merged")

\* The extraction ran to its end and returned success.
ExCompleted == ExReturned /\ ex_ret

\* C14 as stated: exactly one merged raster is produced whenever more than
\* one page is relevant to the request, and none when only one page is
\* relevant.
C14_Original ==
    ExCompleted =>
        Len(MergedOutputs) = (IF Len(relevant_pages) > 1 THEN 1 ELSE 0)

\* C14 amended: exactly one merged raster is produced whenever more than one
\* relevant page yielded a cropped raster and the merge does not raise, and
\* none otherwise; in particular none when only one page is relevant.
C14_MergedWhenSeveralCrops ==
    ExCompleted =>
        /\ Len(MergedOutputs) =
              (IF Len(cropped_images) > 1 /\ ~faults.merge THEN 1 ELSE 0)
        /\ Len(relevant_pages) = 1 => Len(MergedOutputs) = 0

\* C14 witness: two relevant pages were both cropped and one merged raster
\* was produced.
C14_Witness ==
    /\ ExCompleted
    /\ Len(relevant_pages) = 2
    /\ Len(cropped_images) = 2
    /\ Len(MergedOutputs) = 1

\* h[1] + ... + h[n] for the heights of the pasted crops 1..n.
RECURSIVE HeightsUpTo(_, _)
HeightsUpTo(pastes, n) ==
    IF n = 0 THEN 0 ELSE pastes[n].height + HeightsUpTo(pastes, n - 1)

\* C15: when N > 1 crops with heights h1..hN are merged with gap 60, the
\* canvas has height h1 + ... + hN + 60*(N-1) and the width of the widest
\* crop; the crops are stacked in ascending page order, crop i at vertical
\* offset sum of (hj + 60) over the crops before it and horizontal offset
\* (max width - width_i) div 2, so no two crops overlap and every crop lies
\* inside the canvas.
C15_MergeGeometry ==
    merged_img # <<>> =>
        LET ps == merged_img.pastes
            N == Len(ps)
            W == merged_img.width
            H == merged_img.height
        IN  /\ N > 1
            /\ N = Len(cropped_images)
            /\ \A c \in Range(cropped_images) :
                  \E i \in 1..N :
                      /\ ps[i].page = c.page
                      /\ ps[i].height = c.crop_y_end - c.crop_y_start
                      /\ ps[i].width = Page(c.page).width * 3
            /\ H = HeightsUpTo(ps, N) + 60 * (N - 1)
            /\ \A i \in 1..N : ps[i].width <= W
            /\ \E i \in 1..N : ps[i].width = W
            /\ \A i, j \in 1..N : i < j => ps[i].page < ps[j].page
            /\ \A i \in 1..N :
                  /\ ps[i].y = HeightsUpTo(ps, i - 1) + 60 * (i - 1)
                  /\ ps[i].x = (W - ps[i].width) \div 2
                  /\ 0 <= ps[i].x /\ ps[i].x + ps[i].width <= W
                  /\ 0 <= ps[i].y /\ ps[i].y + ps[i].height <= H
            /\ \A i, j \in 1..N :
                  i < j => ps[i].y + ps[i].height <= ps[j].y

\* C15 witness: two crops of different widths were merged, the narrower one
\* pasted at a positive horizontal offset.
C15_Witness ==
    /\ ExReturned
    /\ merged_img # <<>>
    /\ \E i, j \in DOMAIN merged_img.pastes :
          /\ merged_img.pastes[i].width < merged_img.pastes[j].width
          /\ merged_img.pastes[i].x > 0
          /\ merged_img.pastes[j].x = 0

\* Three crops were merged.
C15_ThreeCrops ==
    /\ ExReturned
    /\ merged_img # <<>>
    /\ Len(merged_img.pastes) = 3

\* C16: each extraction operation opens the document handle once, and every
\* handle opened by find_chapter_start_page or extract_verses_with_counter is
\* closed on every exit path of that function: normal completion, early
\* return, and an internal failure caught by the exception handler.
C16_Original ==
    ExReturned =>
        /\ handles.ex_opened <= 1
        /\ handles.ex_closed = handles.ex_opened
        /\ handles.find_closed = handles.find_opened

\* The extraction returned through its exception handler with its document
\* handle still open.
C16_HandleLeftOpen ==
    /\ ExReturned
    /\ ~ex_ret
    /\ handles.ex_opened = 1
    /\ handles.ex_closed = 0

\* Only some of the target verses were located on the scanned pages.
PartialCoverage ==
    /\ found_verses # {}
    /\ found_verses # verse_start..verse_end

\* C20: when only some of the target verses are located on the scanned
\* pages, the extraction still renders the pages on which target verses were
\* found and returns success; the missing verses do not by themselves make
\* the request fail.
C20_PartialCoverageStillSucceeds ==
    (ExReturned /\ PartialCoverage) =>
        /\ ex_ret
        /\ Range(relevant_pages) = PagesWithTargetVerse
        /\ \A p \in PagesWithTargetVerse :
              [kind |-> "backup", page |-> p] \in Range(output_paths)

\* C20 witness: verse 1 was found on two pages, a later target verse on
\* none; both pages were rendered and the extraction returned success.
C20_Witness ==
    /\ ExReturned
    /\ PartialCoverage
    /\ 1 \in found_verses
    /\ verse_end \notin found_verses
    /\ Cardinality(PagesWithTargetVerse) = 2
    /\ ex_ret

\* The crop of page p was attempted and raised.
CropStepFailed(p) ==
    \E k \in DOMAIN crop_bounds :
        /\ crop_bounds[k].page = p
        /\ crop_bounds[k].should_crop
        /\ crop_bounds[k].crop_y_start < crop_bounds[k].crop_y_end
        /\ p \in faults.crop \cup faults.save

\* C21: when the crop step fails on one page or the merge step fails, every
\* artifact already produced (including that page's full-page backup, which
\* is written before the crop is attempted) is kept and reported, and the
\* remaining relevant pages are still processed.
C21_FailuresKeepArtifactsAndContinue ==
    /\ \A p \in RenderedPages :
          [kind |-> "backup", page |-> p] \in Range(output_paths)
    /\ \A p \in RenderedPages :
          (CropsPage(CropPlan(p), p) /\ ~CropStepFailed(p))
          => [kind |-> "cropped", page |-> p] \in Range(output_paths)
    /\ (ExReturned /\ ExSelected /\ Range(relevant_pages) \cap faults.render = {}) =>
          /\ RenderedPages = Range(relevant_pages)
          /\ ex_ret

\* C21 witness: the crop of page 28 raised, pages 29 and 30 were rendered
\* and cropped after it, the merge of their crops raised, and the extraction
\* returned success with the three backups and the two crops.
C21_Witness ==
    /\ ExReturned /\ ex_ret
    /\ CropStepFailed(28)
    /\ faults.merge
    /\ Len(cropped_images) = 2
    /\ MergedOutputs = <<>>
    /\ Len(output_paths) = 5

\* The extractions that have returned, in the order they were called.
Extractions ==
    IF pc = "ex_done" THEN Append(ex_history, ExSnapshot) ELSE ex_history

SameRequest(a, b) ==
    /\ a.chapter = b.chapter
    /\ a.verse_start = b.verse_start /\ a.verse_end = b.verse_end
    /\ a.chapter_start_page = b.chapter_start_page

\* C22: two extractions of the same chapter and verse range from the same
\* document with the same chapter start page produce identical relevant
\* pages, identical crop boundaries and identical output artifact names,
\* independent of any extraction run before them.
C22_SameRequestSameResult ==
    \A i, j \in DOMAIN Extractions :
        SameRequest(Extractions[i], Extractions[j]) =>
            /\ Extractions[i].relevant_pages = Extractions[j].relevant_pages
            /\ Extractions[i].crop_bounds = Extractions[j].crop_bounds
            /\ Extractions[i].names = Extractions[j].names

\* C22 witness: the first and the third extraction are of verses 1 to 2 from
\* page 28 and wrote a merged raster; between them verses 2 to MaxVerse were
\* extracted from page 29.
C22_Witness ==
    /\ Len(Extractions) = 3
    /\ SameRequest(Extractions[1], Extractions[3])
    /\ ~SameRequest(Extractions[1], Extractions[2])
    /\ Extractions[1].verse_end = 2
    /\ Extractions[2].chapter_start_page = 29
    /\ Extractions[2].relevant_pages # <<>>
    /\ \E k \in DOMAIN Extractions[3].names :
          Extractions[3].names[k].ending = "_merged.png"

\* C25: when the lowest-numbered target verse on a page is verse 1 and a
\* preface span was detected on that page, the top crop boundary is
\* max(0, preface_top*zoom - 60*zoom) instead of the verse-based boundary; a
\* preface span is only ever recorded when verse 1 is in the target set and
\* only from the chapter start page, and in every other case the crop is
\* unaffected by it.
C25_PrefaceMovesTopBoundary ==
    /\ surah_description_position # <<>> =>
          /\ 1 \in verse_start..verse_end
          /\ chapter_start_page \in scanned
          /\ surah_description_position = DescriptionPosition(chapter_start_page)
    /\ \A k \in DOMAIN crop_bounds :
          LET b == crop_bounds[k]
              p == b.page
              on_page == TargetVersesOn(p)
          IN  on_page # {} =>
                  IF /\ \A v \in on_page : 1 <= v
                     /\ 1 \in on_page
                     /\ p = chapter_start_page
                     /\ DescriptionPosition(p) # <<>>
                  THEN b.crop_y_start =
                           (IF DescriptionPosition(p)[1] * 3 - 60 * 3 > 0
                            THEN DescriptionPosition(p)[1] * 3 - 60 * 3 ELSE 0)
                  ELSE LET v1 == CHOOSE v \in on_page : \A w \in on_page : v <= w
                           cands == page_verses[p][v1]
                       IN  \E i \in DOMAIN cands :
                               /\ IsChosenCandidate(cands, i)
                               /\ b.crop_y_start =
                                      (IF cands[i].y * 3 - 60 * 3 > 0
                                       THEN cands[i].y * 3 - 60 * 3 ELSE 0)

\* C25 witness: the chapter start page holds verse 1 at 300 below a preface
\* whose top is at 100, and its crop starts at 100*3 - 60*3; the next page,
\* which carries styled blocks too, is cropped from above its verse 2.
C25_Witness ==
    /\ ExReturned
    /\ surah_description_position # <<>>
    /\ surah_description_position[1] = 100
    /\ \E k, n \in DOMAIN crop_bounds :
          /\ crop_bounds[k].page = chapter_start_page
          /\ BestY(page_verses[chapter_start_page][1]) = 300
          /\ crop_bounds[k].crop_y_start = 120
          /\ crop_bounds[n].page = chapter_start_page + 1
          /\ DescriptionPosition(chapter_start_page + 1) # <<>>
          /\ crop_bounds[n].crop_y_start = 120

\* The cropped rasters that were saved, as recorded for the merge.
SavedCrops ==
    {c \in Range(cropped_images) :
        [kind |-> "cropped", page |-> c.page] \in Range(output_paths)}

\* C26: every cropped raster saved for a page contains the target verses
\* located on that page: its top boundary is at or above the render-space
\* position of the lowest-numbered target verse on the page and its bottom
\* boundary is below the render-space position of the highest-numbered
\* target verse on the page, including when the preface override is applied
\* and when a following-verse marker is used for the bottom boundary.
C26_Original ==
    \A c \in SavedCrops :
        LET on_page == TargetVersesOn(c.page)
            pv == page_verses[c.page]
        IN  /\ c.crop_y_start <= BestY(pv[SetMin(on_page)]) * Zoom
            /\ c.crop_y_end > BestY(pv[SetMax(on_page)]) * Zoom

\* A saved crop ends above the line of the target verse it was made for: the
\* marker of the following verse stands on the same line.
C26_CropEndsAboveItsVerse ==
    \E c \in SavedCrops :
        LET pv == page_verses[c.page]
            last == SetMax(TargetVersesOn(c.page))
        IN  /\ c.crop_y_end < BestY(pv[last]) * Zoom
            /\ \E v \in DOMAIN pv : v > last /\ EarliestY(pv[v]) = BestY(pv[last])

\* The extraction reached line 767, where it closes the document and returns.
ReachedItsEnd == handles.ex_closed = 1

\* C28 as stated: extract_verses_with_counter returns success if and only if
\* at least one output artifact was written.
C28_Original ==
    ExReturned => (ex_ret <=> output_paths # <<>>)

\* C28 amended: extract_verses_with_counter returns success if and only if
\* it reached its end and at least one output artifact was written; it
\* returns success when none of the target verses was located and only the
\* chapter start page's full-page backup was written, and failure when the
\* chapter start page cannot be found or an internal error escapes page
\* processing, whether or not artifacts were written before the error.
C28_SuccessIffEndedWithArtifact ==
    ExReturned =>
        /\ ex_ret <=> (ReachedItsEnd /\ output_paths # <<>>)
        /\ (ReachedItsEnd /\ PagesWithTargetVerse = {}) =>
              /\ ex_ret
              /\ output_paths = <<[kind |-> "backup", page |-> chapter_start_page]>>
        /\ Falsy(chapter_start_page) => ~ex_ret /\ output_paths = <<>>

\* C28 witness: none of the target verses was located, the backup of the
\* chapter start page is the only output and the extraction returned success.
C28_Witness ==
    /\ ExReturned
    /\ ex_ret
    /\ found_verses = {}
    /\ scanned # {}
    /\ output_paths = <<[kind |-> "backup", page |-> chapter_start_page]>>

\* The extraction returned failure after it had written artifacts: the
\* rendering of a later page raised.
C28_FailsAfterWriting ==
    /\ ExReturned
    /\ ~ex_ret
    /\ output_paths # <<>>
    /\ ~ReachedItsEnd

\* The pages after the chapter start page that the locator's window of 200
\* pages covers and that qualify as the start of the next chapter.
NextChapterPages ==
    { p \in (chapter_start_page + 1)..(total_pages - 1) :
        p < chapter_start_page + 1 + 200 /\ Qualifies(p, chapter + 1) }

\* The extraction has set its search limit.
ExLimited ==
    pc \in {"ex_scan", "ex_select", "ex_render", "ex_done"} /\ search_limit # None

\* C29: every page that an extraction scans or renders has index p with
\* chapter_start_page <= p < search_limit, where search_limit is the
\* detected start page of the next chapter when one is found after
\* chapter_start_page and min(chapter_start_page + 50, number of pages)
\* otherwise; no page at or after the next chapter's start page is ever
\* scanned or cropped for the current chapter.
C29_PagesWithinChapterWindow ==
    ExLimited =>
        /\ search_limit =
              (IF NextChapterPages # {}
               THEN SetMin(NextChapterPages)
               ELSE IF chapter_start_page + 50 < total_pages
                    THEN chapter_start_page + 50
                    ELSE total_pages)
        /\ \A p \in scanned \cup RenderedPages :
              chapter_start_page <= p /\ p < search_limit
        /\ \A q \in NextChapterPages :
              \A p \in scanned \cup {c.page : c \in Range(cropped_images)} : p < q

\* C29 witness: the next chapter's title stands on page 30, which also holds
\* a verse number of the requested range; the extraction has returned and
\* has scanned and rendered pages 28 and 29 only.
C29_Witness ==
    /\ ExReturned /\ ex_ret
    /\ NextChapterPages = {30}
    /\ verse_end \in DOMAIN VersesOnPage(30)
    /\ scanned = {28, 29}
    /\ RenderedPages = {28, 29}

\* The next chapter is not found in a document of 96 pages: the scan ends 50
\* pages after the chapter start page, before a page that holds a verse of
\* the requested range.
C29_FallbackWindowEnds ==
    /\ ExReturned /\ ex_ret
    /\ NextChapterPages = {}
    /\ search_limit = chapter_start_page + 50
    /\ search_limit < total_pages
    /\ SetMax(scanned) = search_limit - 1
    /\ \E v \in verse_start..verse_end : v \in DOMAIN VersesOnPage(search_limit)

\* The first pass read at least one page and is over, by its break or at
\* the end of the window.
ScanEnded == pc = "ex_select" /\ scanned # {}

\* The target verses located on the scanned pages up to page c.
LocatedUpTo(c) ==
    TargetVerses
        \cap UNION {DOMAIN VersesOnPage(q) : q \in {x \in scanned : x <= c}}

\* The pages on which the set of located target verses was complete.
CompletePages == {c \in scanned : LocatedUpTo(c) = TargetVerses}

\* C23: the verse scan ends on the page immediately after the page on which
\* the set of located target verses first became complete (one further page
\* is always scanned unless the window ends first), and it never ends before
\* the first page containing a target verse has been scanned.
C23_Original ==
    ScanEnded =>
        /\ CompletePages # {} =>
              SetMax(scanned) = Min2(SetMin(CompletePages) + 1, search_limit - 1)
        /\ CompletePages = {} => SetMax(scanned) = search_limit - 1
        /\ SetMax(scanned) < search_limit - 1 => PagesWithTargetVerse # {}

\* The scan ended on the very page that completed the set: verse 1 was
\* located on an earlier page, and a later page of the window was not read.
C23_EndsOnCompletingPage ==
    /\ ScanEnded
    /\ CompletePages # {}
    /\ SetMax(scanned) = SetMin(CompletePages)
    /\ SetMax(scanned) < search_limit - 1

(***************************************************************************)
(* Properties of get_page_verse_ranges (checked under SpecFetch).          *)
(***************************************************************************)
FetchReturned == pc = "api_done"

\* C17: for each page number at most 3 requests are made (1 initial attempt
\* plus 2 retries) whatever mix of timeouts, request errors, non-200
\* statuses and malformed payloads occurs; a page whose attempts all fail is
\* left out of the result, and every later page is still requested and, if
\* it succeeds, stored.
C17_AtMostThreeRequestsPerPage ==
    /\ \A p \in DOMAIN api_requests : api_requests[p] <= 3
    /\ FetchReturned =>
          /\ \A p \in DOMAIN api_requests : api_requests[p] >= 1
          /\ DOMAIN api_result = DOMAIN api_succeeded
          /\ \A p \in DOMAIN api_succeeded : api_result[p] = api_succeeded[p]
          /\ \A p \in DOMAIN api_requests :
                p \notin DOMAIN api_succeeded => api_requests[p] = 3
          /\ Len(page_verse_ranges) = Cardinality(DOMAIN api_succeeded)

\* C17 witness: the first page failed three times, by a timeout, a non-200
\* status and a malformed payload, and is left out; the second page failed
\* by a request error and then succeeded and is stored.
C17_Witness ==
    /\ FetchReturned
    /\ api_requests[1] = 3
    /\ api_failures[1] = {"timeout", "status", "malformed"}
    /\ 1 \notin DOMAIN api_result
    /\ api_failures[2] = {"request_error"}
    /\ api_requests[2] = 2
    /\ 2 \in DOMAIN api_result

(***************************************************************************)
(* Properties of the script body (checked under Spec).                     *)
(***************************************************************************)
\* The detection loop and the duplicate override are over.
AfterDetection ==
    pc \notin {"validate", "exit_no_pdf", "exit_bad_pdf", "exit_no_output_dir",
               "detect", "override"}

IsCross(r) == r.start_chapter # r.end_chapter

\* C1: after the chapter-detection phase (the detection loop followed by the
\* duplicate override), the chapter-to-page assignment table never maps two
\* distinct chapters to the same page.
C1_AssignmentTableHasDistinctPages ==
    AfterDetection =>
        \A c1, c2 \in DOMAIN surah_pages :
            c1 # c2 => surah_pages[c1] # surah_pages[c2]

\* C1 witness: the detection loop ended with two chapters on one page, one
\* of them put there by the detector, and the override has run.
C1_Witness ==
    /\ AfterDetection
    /\ \E c1, c2 \in DOMAIN loop_pages :
          /\ c1 # c2
          /\ loop_pages[c1] = loop_pages[c2]
          /\ detected[c1].page = loop_pages[c1]

\* The pairs <<chapter, start page>> of the run: the assignment table and
\* the start pages the extractions of the verse ranges were called with.
UsedStartPages ==
    {<<c, surah_pages[c]>> : c \in DOMAIN surah_pages}
        \cup {<<log[i].range.start_chapter, log[i].start_chapter_page>> :
                 i \in {j \in DOMAIN log : log[j].first.made}}
        \cup {<<log[i].range.end_chapter, log[i].end_chapter_page>> :
                 i \in {j \in DOMAIN log : log[j].second.made}}

\* C2: across a whole run, including the chapters whose start page is
\* resolved only while a verse range is processed, every resolved start page
\* is recorded in the exclusion set, so that no page is ever used as the
\* start page of two different chapters in the same run.
C2_StartPagesRecordedAndDistinct ==
    AfterDetection =>
        /\ \A cp \in UsedStartPages \ {<<c, surah_pages[c]>> : c \in DOMAIN surah_pages} :
              cp[2] \in found_pages
        /\ \A a, b \in UsedStartPages : a[1] # b[1] => a[2] # b[2]

\* C2, the consequence alone: no page is used as the start page of two
\* different chapters in the same run.
C2_DistinctStartPages ==
    AfterDetection =>
        \A a, b \in UsedStartPages : a[1] # b[1] => a[2] # b[2]

\* C4: for a chapter with an entry in the known-page table, the page finally
\* assigned is the known page whenever the detector returned none, returned
\* a page of the exclusion set, or returned a page assigned to a different
\* chapter in this run.
C4_KnownPageUsedOnFailureOrCollision ==
    AfterDetection =>
        \A ch \in DOMAIN detected \cap DOMAIN known_surah_pages :
            ( \/ detected[ch].page = None
              \/ detected[ch].page \in detected[ch].excluded
              \/ \E c2 \in DOMAIN loop_pages :
                    c2 # ch /\ loop_pages[c2] = detected[ch].page )
            => /\ ch \in DOMAIN surah_pages
               /\ surah_pages[ch] = known_surah_pages[ch]

\* C4 witness: the detector proposed for a chapter a page other than its
\* known page, that page is assigned to a different chapter, and the final
\* assignment of the chapter is its known page.
C4_Witness ==
    /\ AfterDetection
    /\ \E ch \in DOMAIN detected :
          /\ detected[ch].page # None
          /\ detected[ch].page # known_surah_pages[ch]
          /\ \E c2 \in DOMAIN loop_pages :
                c2 # ch /\ loop_pages[c2] = detected[ch].page
          /\ surah_pages[ch] = known_surah_pages[ch]

\* The last verse of a chapter of the documents above.
ChapterLastVerse(ch) == MaxVerse

\* C6 as stated: a cross-chapter request is split into the first chapter
\* from the start verse through that chapter's last verse, and the second
\* chapter from verse 1 through the end verse.
C6_Original ==
    \A i \in DOMAIN log :
        (IsCross(log[i].range) /\ log[i].first.made /\ log[i].second.made) =>
            /\ log[i].first.chapter = log[i].range.start_chapter
            /\ log[i].first.verse_start = log[i].range.start_verse
            /\ log[i].first.verse_end = ChapterLastVerse(log[i].range.start_chapter)
            /\ log[i].second.chapter = log[i].range.end_chapter
            /\ log[i].second.verse_start = 1
            /\ log[i].second.verse_end = log[i].range.end_verse

\* Both extractions of the cross-chapter range in progress have returned
\* success.
BothPartsSucceeded ==
    /\ pc = "ex_done"
    /\ call.kind = "second"
    /\ success1.made /\ success1.ret
    /\ ex_ret

\* C7: a cross-chapter request is counted as a success only if both of its
\* sub-extractions returned success; if either fails, or either chapter's
\* start page cannot be resolved, it is counted as a failure.
C7_CrossChapterCountedOnBoth ==
    [][ ( /\ range_idx' = range_idx + 1
          /\ IsCross(page_verse_ranges[range_idx]) )
        => IF BothPartsSucceeded
           THEN success_count' = success_count + 1 /\ failure_count' = failure_count
           ELSE failure_count' = failure_count + 1 /\ success_count' = success_count
      ]_vars

\* C7 witness: a cross-chapter range whose first extraction failed and
\* whose second succeeded has been counted, as a failure.
C7_Witness ==
    \E i \in DOMAIN log :
        /\ IsCross(log[i].range)
        /\ log[i].first.made /\ ~log[i].first.ret
        /\ log[i].second.made /\ log[i].second.ret
        /\ failure_count >= 1
        /\ log[i].counted = "failure"

\* The run has ended by sys.exit(1).
Aborted ==
    pc \in {"exit_no_pdf", "exit_bad_pdf", "exit_no_output_dir", "exit_no_ranges"}

\* The source document is missing or does not open.
DocumentNotOpened == pc \in {"exit_no_pdf", "exit_bad_pdf"}

\* get_page_verse_ranges has returned to the script.
RangesFetched ==
    pc \in {"exit_no_ranges", "loop", "ex_start", "ex_scan", "ex_select",
            "ex_render", "ex_done", "summary"}

\* An extraction has been called or a verse range has been counted.
ExtractionBegun ==
    \/ log # <<>>
    \/ call.kind # "none"
    \/ success_count + failure_count > 0

\* What C18 says of a run that does not abort, and of when the provider's
\* answer makes it abort.
ProceedsThroughAllRanges ==
    /\ Aborted => ~ExtractionBegun
    /\ RangesFetched => (pc = "exit_no_ranges" <=> page_verse_ranges = <<>>)
    /\ ExtractionBegun => page_verse_ranges # <<>>
    /\ pc = "summary" =>
          /\ Len(log) = Len(page_verse_ranges)
          /\ \A i \in DOMAIN log : log[i].range = page_verse_ranges[i]

\* C18 as stated: the run aborts before any extraction exactly when the
\* verse-range provider yields no range for any page or the source document
\* cannot be opened; if at least one page's range was obtained, the run
\* proceeds to extract every obtained range.
C18_Original ==
    /\ Aborted => (DocumentNotOpened \/ pc = "exit_no_ranges")
    /\ ProceedsThroughAllRanges

\* C18 amended: the run aborts before any extraction exactly when the
\* provider yields no range for any page, the source document is missing or
\* cannot be opened, or the output directory is missing and cannot be
\* created; if at least one page's range was obtained, the run proceeds to
\* extract every obtained range.
C18_AbortsOnlyWithoutDocumentDirectoryOrRanges ==
    /\ Aborted =>
          (DocumentNotOpened \/ pc = "exit_no_output_dir" \/ pc = "exit_no_ranges")
    /\ ProceedsThroughAllRanges

\* C18 witness: the chapters were detected, the provider gave no range and
\* the run has aborted with nothing extracted.
C18_Witness ==
    /\ pc = "exit_no_ranges"
    /\ DOMAIN surah_pages # {}
    /\ page_verse_ranges = <<>>
    /\ ~ExtractionBegun

\* The run went through every obtained range and reached its summary.
C18_AllRangesProcessed ==
    /\ pc = "summary"
    /\ Len(page_verse_ranges) = MaxRanges
    /\ Len(log) = MaxRanges

\* No table holds a page for the chapter and no page that the detector
\* would take for it lies in the window it searches.
Unresolvable(ch) ==
    /\ ch \notin DOMAIN surah_pages
    /\ ch \notin DOMAIN known_surah_pages
    /\ \A p \in 28..(total_pages - 1) :
          p < 28 + 200 => (p \in found_pages \/ ~Qualifies(p, ch))

\* The ranges of the log that were counted as c.
CountedAs(c) == {i \in DOMAIN log : log[i].counted = c}

\* C19: when a chapter's start page cannot be resolved by the assignment
\* table, the known-page table or on-demand detection, the request for that
\* chapter is skipped, the failure counter is incremented, and the run
\* continues with the remaining verse ranges; an unresolved chapter never
\* aborts the run.
C19_UnresolvedChapterSkippedAndCounted ==
    AfterDetection =>
        /\ \A i \in DOMAIN log :
              ( \/ Unresolvable(log[i].range.start_chapter)
                \/ Unresolvable(log[i].range.end_chapter) )
              => /\ ~log[i].first.made
                 /\ ~log[i].second.made
                 /\ log[i].counted = "failure"
        /\ failure_count = Cardinality(CountedAs("failure"))
        /\ success_count = Cardinality(CountedAs("success"))
        /\ log # <<>> => ~Aborted
        /\ pc = "summary" => Len(log) = Len(page_verse_ranges)

\* C19 witness: the first range names a chapter that cannot be resolved and
\* was skipped and counted as a failure; the range after it was extracted
\* and counted as a success, and the run reached its summary.
C19_Witness ==
    /\ pc = "summary"
    /\ Len(log) >= 2
    /\ Unresolvable(log[1].range.start_chapter) \/ Unresolvable(log[1].range.end_chapter)
    /\ ~log[1].first.made
    /\ log[2].first.made /\ log[2].counted = "success"
    /\ failure_count = 1 /\ success_count = 1

\* The extraction loop has gone on to the next verse range.
RangeDone == range_idx' = range_idx + 1

\* C27: in the extraction loop of a run, every verse range obtained from the
\* provider increments exactly one of success_count and failure_count by
\* exactly 1, so after the loop success_count + failure_count equals the
\* number of verse ranges obtained, for single-chapter and cross-chapter
\* ranges alike.
C27_EveryRangeCountedOnce ==
    /\ [][ IF RangeDone
           THEN \/ /\ success_count' = success_count + 1
                   /\ failure_count' = failure_count
                \/ /\ failure_count' = failure_count + 1
                   /\ success_count' = success_count
           ELSE /\ range_idx' = range_idx
                /\ success_count' = success_count
                /\ failure_count' = failure_count ]_vars
    /\ [](pc = "summary" =>
            success_count + failure_count = Len(page_verse_ranges))

\* C27 witness: the loop is over after a single-chapter range that was
\* extracted, and a cross-chapter range that was skipped for an unresolved
\* chapter; one is counted as a success and the other as a failure.
C27_Witness ==
    /\ pc = "summary"
    /\ Len(page_verse_ranges) = 2
    /\ \E i, j \in DOMAIN log :
          /\ ~IsCross(log[i].range) /\ log[i].first.made
          /\ IsCross(log[j].range) /\ ~log[j].first.made
    /\ success_count = 1 /\ failure_count = 1

(***************************************************************************)
(* Properties of main.py (checked under SpecDaily).                        *)
(***************************************************************************)
\* The process has ended.
DailyEnded == pc \in {"daily_exit", "daily_crash"}

C30_SendStepRaises ==
    /\ pc = "daily_crash"
    /\ exit_cause = "AttributeError"
    /\ day_trace = <<"download">>
    /\ daily_counter = FirstDay

====
